---- MODULE Spec2Model ----
(***************************************************************************)
(* A model of the feathr registry: the in-memory typed graph registry      *)
(* (sql-provider/src/db_registry.rs, sql-provider/src/lib.rs), the entity  *)
(* and edge model (registry-provider/src/models), the request dispatcher   *)
(* (registry-api/src/api_provider.rs) and the Raft request router          *)
(* (raft-registry/src/app.rs, raft-registry/src/network/api.rs).           *)
(*                                                                         *)
(* The specifications:                                                      *)
(*   Spec      one registry driven through the RegistryProvider operations *)
(*   SpecRaft  a cluster of replicas, each applying the replicated log     *)
(*   SpecLineage  get_lineage run step by step on derived features         *)
(*   SpecJoin  join_cluster run seed by seed                               *)
(*   SpecManagement  the management endpoints of one node                  *)
(*   SpecLock  the tasks that take the lock of the state machine           *)
(*   SpecFts   an FtsIndex driven on its own                               *)
(***************************************************************************)
EXTENDS Integers, Sequences, FiniteSets, TLC

\* ---------------------------------------------------------------- bounds
\* Largest number of nodes a registry graph holds in the model.
MaxEntities == 3
\* Largest number of input features named by one derived feature definition.
MaxInputs == 2
\* Largest number of entries in the replicated log.
MaxLog == 2
\* Number of followers beside the leader.
NumFollowers == 1
\* Number of values Uuid::new_v4() is drawn from when a log entry is applied.
MaxGuid == 2
\* Largest value the wall clock takes.
MaxClock == 1
\* Largest limit and largest offset of a search.
MaxLimit == 2
MaxOffset == 1
\* Largest size limit of a traversal.
MaxSizeLimit == 4
\* Largest number of derived features of the lineage graphs.
MaxFeatures == 4
\* Largest number of seeds given to join_cluster.
MaxSeeds == 3
\* Number of management codes a caller or the configuration can give.
MaxCode == 2
\* Largest node id of a management call.
MaxNodeId == 3
\* Number of tasks that use the state machine of one node at the same time.
MaxTasks == 3
\* Largest number of documents added to an index driven on its own.
MaxDocs == 3

\* ---------------------------------------------------------------- values
\* Option::None
None == 0

\* Uuid values; one more than the graph can hold, so an unknown id exists.
Uuids == 1..(MaxEntities + 1)

\* The size limits of the traversals.
SizeLimits == 0..MaxSizeLimit

\* Simple names given by callers; a name is a tuple of one part, and the
\* qualified name "{project}__{name}" is the tuple of its two parts.
Names == {<<"a">>, <<"b">>}


EntityTypes == {"Project", "Source", "Anchor", "AnchorFeature", "DerivedFeature"}

EdgeTypes == {"BelongsTo", "Contains", "Consumes", "Produces"}

Min(a, b) == IF a < b THEN a ELSE b

Ok(v) == [ok |-> TRUE, val |-> v]

Err(e) == [ok |-> FALSE, err |-> e]

\* All orders in which the elements of a finite set can be visited.
Orders(S) == {s \in [1..Cardinality(S) -> S] : \A i, j \in 1..Cardinality(S) : i # j => s[i] # s[j]}

\* The elements of a sequence.
Range(s) == {s[i] : i \in 1..Len(s)}

\* ---------------------------------------------------------------- edge model
reflection(t) ==
    CASE t = "BelongsTo" -> "Contains"
      [] t = "Contains" -> "BelongsTo"
      [] t = "Consumes" -> "Produces"
      [] t = "Produces" -> "Consumes"

is_downstream(t) == t \in {"Contains", "Produces"}

validate(t, from, to) ==
    <<from, to, t>> \in {
        <<"Project", "Source", "Contains">>,
        <<"Project", "Anchor", "Contains">>,
        <<"Project", "AnchorFeature", "Contains">>,
        <<"Project", "DerivedFeature", "Contains">>,
        <<"Source", "Project", "BelongsTo">>,
        <<"Source", "Anchor", "Produces">>,
        <<"Source", "AnchorFeature", "Produces">>,
        <<"Anchor", "Project", "BelongsTo">>,
        <<"Anchor", "Source", "Consumes">>,
        <<"Anchor", "AnchorFeature", "Contains">>,
        <<"AnchorFeature", "Project", "BelongsTo">>,
        <<"AnchorFeature", "Source", "Consumes">>,
        <<"AnchorFeature", "Anchor", "BelongsTo">>,
        <<"AnchorFeature", "DerivedFeature", "Produces">>,
        <<"DerivedFeature", "Project", "BelongsTo">>,
        <<"DerivedFeature", "AnchorFeature", "Consumes">>,
        <<"DerivedFeature", "DerivedFeature", "Produces">>,
        <<"DerivedFeature", "DerivedFeature", "Consumes">>}

is_entry_point(t) == t = "Project"

\* ---------------------------------------------------------------- entity properties
\* EntityPropMutator::new_*: the property value built from a definition.  The
\* clock is read here (chrono::Utc::now()), `now` is the value it returned.
prop_new_project(definition, now) ==
    [guid |-> definition.id, last_modified_ts |-> now,
     attributes |-> [anchors |-> {}, sources |-> {}, anchor_features |-> {},
                     derived_features |-> {}]]

prop_new_source(definition, now) ==
    [guid |-> definition.id, last_modified_ts |-> now, attributes |-> [tags |-> {}]]

prop_new_anchor(definition, now) ==
    [guid |-> definition.id, last_modified_ts |-> now,
     attributes |-> [features |-> {}, source |-> definition.source_id]]

prop_new_anchor_feature(definition, now) ==
    [guid |-> definition.id, last_modified_ts |-> now, attributes |-> [tags |-> {}]]

prop_new_derived_feature(definition, now) ==
    [guid |-> definition.id, last_modified_ts |-> now,
     attributes |-> [input_anchor_features |-> definition.input_anchor_features,
                     input_derived_features |-> definition.input_derived_features]]

\* EntityProperty::connect: the two endpoint entities after the hook ran on
\* clones of them.  A pair <<from, to>>.
prop_connect(from, from_id, to, to_id, edge_type) ==
    LET ft == <<from.entity_type, to.entity_type>> IN
    IF edge_type = "Contains" THEN
        LET to1 == [to EXCEPT !.containers = @ \cup {from_id}] IN
        CASE ft = <<"Anchor", "AnchorFeature">> ->
                <<[from EXCEPT !.properties.attributes.features = @ \cup {to_id}], to1>>
          [] ft = <<"Project", "AnchorFeature">> ->
                <<[from EXCEPT !.properties.attributes.anchor_features = @ \cup {to_id}], to1>>
          [] ft = <<"Project", "DerivedFeature">> ->
                <<[from EXCEPT !.properties.attributes.derived_features = @ \cup {to_id}], to1>>
          [] ft = <<"Project", "Anchor">> ->
                <<[from EXCEPT !.properties.attributes.anchors = @ \cup {to_id}], to1>>
          [] ft = <<"Project", "Source">> ->
                <<[from EXCEPT !.properties.attributes.sources = @ \cup {to_id}], to1>>
          [] OTHER -> <<from, to1>>
    ELSE IF edge_type = "Consumes" THEN
        CASE ft = <<"DerivedFeature", "AnchorFeature">> ->
                <<[from EXCEPT !.properties.attributes.input_anchor_features = @ \cup {to_id}], to>>
          [] ft = <<"DerivedFeature", "DerivedFeature">> ->
                <<[from EXCEPT !.properties.attributes.input_derived_features = @ \cup {to_id}], to>>
          [] ft = <<"Anchor", "Source">> ->
                <<[from EXCEPT !.properties.attributes.source = to_id], to>>
          [] OTHER -> <<from, to>>
    ELSE <<from, to>>

\* EntityProperty::disconnect
prop_disconnect(from, from_id, to, to_id, edge_type) ==
    LET ft == <<from.entity_type, to.entity_type>> IN
    IF edge_type = "Contains" THEN
        LET to1 == [to EXCEPT !.containers = @ \ {from_id}] IN
        CASE ft = <<"Anchor", "AnchorFeature">> ->
                <<[from EXCEPT !.properties.attributes.features = @ \ {to_id}], to1>>
          [] ft = <<"Project", "AnchorFeature">> ->
                <<[from EXCEPT !.properties.attributes.anchor_features = @ \ {to_id}], to1>>
          [] ft = <<"Project", "DerivedFeature">> ->
                <<[from EXCEPT !.properties.attributes.derived_features = @ \ {to_id}], to1>>
          [] ft = <<"Project", "Anchor">> ->
                <<[from EXCEPT !.properties.attributes.anchors = @ \ {to_id}], to1>>
          [] ft = <<"Project", "Source">> ->
                <<[from EXCEPT !.properties.attributes.sources = @ \ {to_id}], to1>>
          [] OTHER -> <<from, to1>>
    ELSE IF edge_type = "Consumes" THEN
        CASE ft = <<"DerivedFeature", "AnchorFeature">> ->
                <<[from EXCEPT !.properties.attributes.input_anchor_features = @ \ {to_id}], to>>
          [] ft = <<"DerivedFeature", "DerivedFeature">> ->
                <<[from EXCEPT !.properties.attributes.input_derived_features = @ \ {to_id}], to>>
          [] ft = <<"Anchor", "Source">> ->
                <<[from EXCEPT !.properties.attributes.source = None], to>>
          [] OTHER -> <<from, to>>
    ELSE <<from, to>>

\* ---------------------------------------------------------------- full-text index
\* FtsIndex: `writer` holds the documents added and not yet committed, `docs`
\* the committed documents the reader sees.
fts_new == [enabled |-> TRUE, writer |-> <<>>, docs |-> <<>>]

ToDoc(e) ==
    [id |-> e.id, type |-> e.entity_type, name |-> <<e.name, e.qualified_name>>,
     scopes |-> e.containers]

fts_add_doc(fts, e) == [fts EXCEPT !.writer = Append(@, ToDoc(e))]

fts_commit(fts) == [fts EXCEPT !.docs = @ \o fts.writer, !.writer = <<>>]

fts_index(fts, e) == IF ~fts.enabled THEN fts ELSE fts_commit(fts_add_doc(fts, e))

\* ---------------------------------------------------------------- graph registry
\* Registry::new.  graph.nodes[i] is the weight of NodeIndex i; graph.edges
\* lists the edges in the order they were added, each with its endpoints'
\* node indices and its weight.
registry_new ==
    [graph |-> [nodes |-> <<>>, edges |-> <<>>],
     node_id_map |-> <<>>,
     name_id_map |-> <<>>,
     deleted |-> {},
     entry_points |-> <<>>,
     fts_index |-> fts_new]

\* A variant that finds tombstoned entities as well.
get_idx_tombstoned(reg, uuid) ==
    IF uuid \notin DOMAIN reg.node_id_map THEN Err("InvalidEntity")
    ELSE Ok(reg.node_id_map[uuid])

get_idx(reg, uuid) ==
    IF uuid \in reg.deleted THEN Err("InvalidEntity")
    ELSE IF uuid \notin DOMAIN reg.node_id_map THEN Err("InvalidEntity")
    ELSE Ok(reg.node_id_map[uuid])

\* graph.edges_connecting(a, b) filtered by edge type: the positions in
\* graph.edges of the edges from node a to node b of that type.
edges_connecting(reg, a, b) ==
    {k \in 1..Len(reg.graph.edges) :
        reg.graph.edges[k].source = a /\ reg.graph.edges[k].target = b}

\* graph.edges(idx) / edges_directed(idx, Outgoing): positions of the outgoing edges.
edges_out(reg, idx) == {k \in 1..Len(reg.graph.edges) : reg.graph.edges[k].source = idx}

\* A variant that files the node under its id alone.
insert_node_unnamed(reg, id, entity_type, name, qualified_name, properties) ==
    LET entity == [id |-> id, entity_type |-> entity_type, name |-> name,
                   qualified_name |-> qualified_name, containers |-> {},
                   properties |-> properties]
        idx == Len(reg.graph.nodes) + 1
    IN  [reg EXCEPT
            !.graph.nodes = Append(@, entity),
            !.node_id_map = (id :> idx) @@ @,
            !.entry_points = IF is_entry_point(entity_type) THEN Append(@, idx) ELSE @]

insert_node(reg, id, entity_type, name, qualified_name, properties) ==
    LET entity == [id |-> id, entity_type |-> entity_type, name |-> name,
                   qualified_name |-> qualified_name, containers |-> {},
                   properties |-> properties]
        idx == Len(reg.graph.nodes) + 1
    IN  [reg EXCEPT
            !.graph.nodes = Append(@, entity),
            !.node_id_map = (id :> idx) @@ @,
            !.name_id_map = (qualified_name :> id) @@ @,
            !.entry_points = IF is_entry_point(entity_type) THEN Append(@, idx) ELSE @]

\* insert_entity with the check of the id made among the live entities alone.
insert_entity_reusing_id(reg, uuid, entity_type, name, qualified_name, properties) ==
    IF uuid \in DOMAIN reg.node_id_map /\ uuid \notin reg.deleted
        THEN [reg |-> reg, res |-> Err("EntityIdExists")]
    ELSE IF qualified_name \in DOMAIN reg.name_id_map
        THEN [reg |-> reg, res |-> Err("EntityNameExists")]
    ELSE LET r1 == insert_node(reg, uuid, entity_type, name, qualified_name, properties)
             idx == Len(r1.graph.nodes)
         IN  [reg |-> [r1 EXCEPT !.fts_index = fts_index(@, r1.graph.nodes[idx])],
              res |-> Ok(uuid)]

\* insert_entity without the check of the qualified name.
insert_entity_unchecked_name(reg, uuid, entity_type, name, qualified_name, properties) ==
    IF uuid \in DOMAIN reg.node_id_map THEN [reg |-> reg, res |-> Err("EntityIdExists")]
    ELSE LET r1 == insert_node(reg, uuid, entity_type, name, qualified_name, properties)
             idx == Len(r1.graph.nodes)
         IN  [reg |-> [r1 EXCEPT !.fts_index = fts_index(@, r1.graph.nodes[idx])],
              res |-> Ok(uuid)]

insert_entity(reg, uuid, entity_type, name, qualified_name, properties) ==
    IF uuid \in DOMAIN reg.node_id_map THEN [reg |-> reg, res |-> Err("EntityIdExists")]
    ELSE IF qualified_name \in DOMAIN reg.name_id_map
        THEN [reg |-> reg, res |-> Err("EntityNameExists")]
    ELSE LET r1 == insert_node(reg, uuid, entity_type, name, qualified_name, properties)
             idx == Len(r1.graph.nodes)
         IN  [reg |-> [r1 EXCEPT !.fts_index = fts_index(@, r1.graph.nodes[idx])],
              res |-> Ok(uuid)]

insert_edge(reg, edge_type, from_idx, to_idx, from_uuid, to_uuid) ==
    LET from == reg.graph.nodes[from_idx]
        to == reg.graph.nodes[to_idx]
        pair == prop_connect(from, from_uuid, to, to_uuid, edge_type)
        nodes1 == [reg.graph.nodes EXCEPT ![from_idx].properties = pair[1].properties]
        nodes2 == [nodes1 EXCEPT ![to_idx].properties = pair[2].properties]
        edge == [source |-> from_idx, target |-> to_idx,
                 weight |-> [from |-> from_uuid, to |-> to_uuid, edge_type |-> edge_type]]
    IN  [reg EXCEPT !.graph.nodes = nodes2, !.graph.edges = Append(@, edge)]

\* A variant that inserts the edge whether or not the graph has it.
insert_edge_always(reg, edge_type, from_idx, to_idx, from_uuid, to_uuid) ==
    insert_edge(reg, edge_type, from_idx, to_idx, from_uuid, to_uuid)

\* One half of connect: the edge from -> to of the type is inserted unless the
\* graph has it.
insert_edge_if_absent(reg, edge_type, from_idx, to_idx, from_uuid, to_uuid) ==
    IF \E k \in edges_connecting(reg, from_idx, to_idx) :
            reg.graph.edges[k].weight.edge_type = edge_type
    THEN reg
    ELSE insert_edge(reg, edge_type, from_idx, to_idx, from_uuid, to_uuid)

\* connect once both endpoints were found at fi and ti.
\* A variant that adds the forward edge alone.
connect_at_forward_only(reg, fi, ti, from, to, edge_type) ==
    insert_edge_if_absent(reg, edge_type, fi, ti, from, to)

connect_at(reg, fi, ti, from, to, edge_type) ==
    insert_edge_if_absent(insert_edge_if_absent(reg, edge_type, fi, ti, from, to),
                          reflection(edge_type), ti, fi, to, from)

connect(reg, from, to, edge_type) ==
    LET fi == get_idx(reg, from)
        ti == get_idx(reg, to)
    IN  IF ~fi.ok THEN [reg |-> reg, res |-> fi]
        ELSE IF ~ti.ok THEN [reg |-> reg, res |-> ti]
        ELSE [reg |-> connect_at(reg, fi.val, ti.val, from, to, edge_type),
              res |-> Ok(None)]

\* get_neighbors_idx: the targets of the outgoing edges of idx whose type is in
\* `types`, most recently added edge first.
get_neighbors_idx(reg, idx, types) ==
    LET out == SelectSeq(reg.graph.edges,
                         LAMBDA e : e.source = idx /\ e.weight.edge_type \in types)
    IN  [i \in 1..Len(out) |-> out[Len(out) + 1 - i].target]

\* The disconnect hook run for every edge of `ks` (positions in graph.edges),
\* each run writing back the properties of both endpoints.
RECURSIVE disconnect_all(_, _)
disconnect_all(nodes, es) ==
    IF es = <<>> THEN nodes
    ELSE LET e == Head(es)
             from == nodes[e.source]
             to == nodes[e.target]
             pair == prop_disconnect(from, from.id, to, to.id, e.weight.edge_type)
             nodes1 == [nodes EXCEPT ![e.source].properties = pair[1].properties]
             nodes2 == [nodes1 EXCEPT ![e.target].properties = pair[2].properties]
         IN  disconnect_all(nodes2, Tail(es))

\* A variant that never finds the entity in use.
in_use_never(reg, idx) == FALSE

\* The check delete makes first: the node has an outgoing edge of a
\* downstream type.
in_use(reg, idx) ==
    \E k \in edges_out(reg, idx) : is_downstream(reg.graph.edges[k].weight.edge_type)

\* A variant that collects the outgoing edges alone.
incident_edges_outgoing(reg, idx) ==
    {e \in Range(reg.graph.edges) : e.source = idx}

\* The edges delete collects: those connecting the node and each of its
\* neighbours, in both directions.
incident_edges(reg, idx) ==
    LET neighbors == Range(get_neighbors_idx(reg, idx, EdgeTypes))
    IN  {e \in Range(reg.graph.edges) :
            \/ e.source = idx /\ e.target \in neighbors
            \/ e.target = idx /\ e.source \in neighbors}

\* The registry after the collected edges were disconnected and removed and
\* the id was added to the tombstones.
delete_at(reg, uuid, edges) ==
    [reg EXCEPT
        !.graph.nodes = disconnect_all(@, SelectSeq(reg.graph.edges, LAMBDA e : e \in edges)),
        !.graph.edges = SelectSeq(@, LAMBDA e : e \notin edges),
        !.deleted = @ \cup {uuid}]

delete_entity_by_id(reg, uuid) ==
    LET gi == get_idx(reg, uuid) IN
    IF ~gi.ok THEN [reg |-> reg, res |-> gi]
    ELSE IF in_use(reg, gi.val) THEN [reg |-> reg, res |-> Err("DeleteInUsed")]
    ELSE [reg |-> delete_at(reg, uuid, incident_edges(reg, gi.val)), res |-> Ok(None)]

\* ---------------------------------------------------------------- snapshots
\* The position of the last of the keys that equals key.
last_idx(keys, key) ==
    CHOOSE i \in 1..Len(keys) : keys[i] = key /\ \A j \in (i + 1)..Len(keys) : keys[j] # key

\* The documents of all nodes, added in node order.
RECURSIVE add_docs(_, _)
add_docs(fts, nodes) ==
    IF nodes = <<>> THEN fts ELSE add_docs(fts_add_doc(fts, Head(nodes)), Tail(nodes))

\* Registry::from_content: the indices and the entry points are rebuilt from
\* the node weights; every node's document is added to a new index, which is
\* not committed.
from_content(graph, deleted) ==
    [graph |-> graph,
     deleted |-> deleted,
     node_id_map |->
        [u \in {n.id : n \in Range(graph.nodes)} |->
            last_idx([i \in 1..Len(graph.nodes) |-> graph.nodes[i].id], u)],
     name_id_map |->
        [q \in {n.qualified_name : n \in Range(graph.nodes)} |->
            graph.nodes[last_idx([i \in 1..Len(graph.nodes) |->
                                       graph.nodes[i].qualified_name], q)].id],
     entry_points |->
        SelectSeq([i \in 1..Len(graph.nodes) |-> i],
                  LAMBDA i : is_entry_point(graph.nodes[i].entity_type)),
     fts_index |-> add_docs(fts_new, graph.nodes)]

\* An entity read back from its serialized form: the fields marked
\* skip_deserializing come back empty.
deserialize_entity(e) ==
    CASE e.entity_type = "Anchor" ->
            [e EXCEPT !.properties.attributes.features = {}]
      [] e.entity_type = "DerivedFeature" ->
            [e EXCEPT !.properties.attributes.input_anchor_features = {},
                      !.properties.attributes.input_derived_features = {}]
      [] OTHER -> e

\* take_snapshot: the graph and the tombstones are what is serialized.
take_snapshot(reg) == [graph |-> reg.graph, deleted |-> reg.deleted]

\* load_snapshot: the registry is replaced by the one read from the data.
load_snapshot(data) ==
    from_content([data.graph EXCEPT
                     !.nodes = [i \in 1..Len(@) |-> deserialize_entity(@[i])]],
                 data.deleted)

\* Registry::load: the entities are inserted one by one into a new registry,
\* each with one more document; the first failing insert ends the load.
RECURSIVE load_entities(_, _)
load_entities(r, entities) ==
    IF entities = <<>> \/ ~r.res.ok THEN r
    ELSE LET e == Head(entities)
             r1 == insert_entity(r.reg, e.id, e.entity_type, e.name, e.qualified_name,
                                 e.properties)
         IN  load_entities(
                 IF r1.res.ok
                 THEN [reg |-> [r1.reg EXCEPT !.fts_index = fts_add_doc(@, e)], res |-> r1.res]
                 ELSE r1,
                 Tail(entities))

\* The edges are connected one by one; a connect that fails is passed over.
RECURSIVE load_edges(_, _)
load_edges(reg, edges) ==
    IF edges = <<>> THEN reg
    ELSE load_edges(connect(reg, Head(edges).from, Head(edges).to, Head(edges).edge_type).reg,
                    Tail(edges))

load(entities, edges) ==
    LET r == load_entities([reg |-> registry_new, res |-> Ok(None)], entities) IN
    IF ~r.res.ok THEN r
    ELSE [reg |-> load_edges([r.reg EXCEPT !.fts_index = fts_commit(@)], edges),
          res |-> Ok(None)]

\* ---------------------------------------------------------------- RegistryProvider
\* The creation operations of the provider.  Each returns the registry it
\* leaves behind and its result; an error returned by a later step leaves the
\* earlier steps' effects in place.
new_project(reg, definition, now) ==
    insert_entity(reg, definition.id, "Project", definition.qualified_name,
                  definition.qualified_name, prop_new_project(definition, now))

\* The outcome r1 of a step taken after r succeeded: the id r returned stays
\* the result when the step succeeded as well.
keep_id(r, r1) == IF r1.res.ok THEN [reg |-> r1.reg, res |-> r.res] ELSE r1

\* `step` applied to the registry of `r` when `r` succeeded (the `?` operator).
and_then(r, step(_)) == IF ~r.res.ok THEN r ELSE keep_id(r, step(r.reg))

new_source(reg, project_id, definition, now) ==
    and_then(insert_entity(reg, definition.id, "Source", definition.name,
                           definition.qualified_name, prop_new_source(definition, now)),
             LAMBDA g : connect(g, project_id, definition.id, "Contains"))

new_anchor(reg, project_id, definition, now) ==
    and_then(
        and_then(insert_entity(reg, definition.id, "Anchor", definition.name,
                               definition.qualified_name, prop_new_anchor(definition, now)),
                 LAMBDA g : connect(g, project_id, definition.id, "Contains")),
        LAMBDA g : connect(g, definition.id, definition.source_id, "Consumes"))

\* connect(from, ids[1], t), connect(from, ids[2], t), ... stopping at the first error.
RECURSIVE connect_each(_, _, _, _)
connect_each(r, from, ids, edge_type) ==
    IF ids = <<>> \/ ~r.res.ok THEN r
    ELSE connect_each(and_then(r, LAMBDA g : connect(g, from, Head(ids), edge_type)),
                      from, Tail(ids), edge_type)

\* The ids of the entities an entity has an outgoing edge of the type to.
get_neighbors(reg, uuid, edge_type) ==
    LET sources == get_neighbors_idx(reg, get_idx(reg, uuid).val, {edge_type})
    IN  [i \in 1..Len(sources) |-> reg.graph.nodes[sources[i]].id]

\* A variant in which the feature consumes nothing.
consume_nothing(r, anchor_id, feature_id) == r

\* The last step of new_anchor_feature: the feature consumes what the anchor consumes.
consume_sources(r, anchor_id, feature_id) ==
    IF ~r.res.ok THEN r
    ELSE connect_each(r, feature_id, get_neighbors(r.reg, anchor_id, "Consumes"), "Consumes")

new_anchor_feature(reg, project_id, anchor_id, definition, now) ==
    consume_sources(
        and_then(
            and_then(insert_entity(reg, definition.id, "AnchorFeature", definition.name,
                                   definition.qualified_name,
                                   prop_new_anchor_feature(definition, now)),
                     LAMBDA g : connect(g, project_id, definition.id, "Contains")),
            LAMBDA g : connect(g, anchor_id, definition.id, "Contains")),
        anchor_id, definition.id)

\* `order` is the order in which the two input sets of the definition are
\* iterated: the anchor features in some order, then the derived features.
new_derived_feature(reg, project_id, definition, order, now) ==
    connect_each(
        and_then(insert_entity(reg, definition.id, "DerivedFeature", definition.name,
                               definition.qualified_name,
                               prop_new_derived_feature(definition, now)),
                 LAMBDA g : connect(g, project_id, definition.id, "Contains")),
        definition.id, order, "Consumes")

\* The iteration orders new_derived_feature may take for a definition.
input_orders(definition) ==
    {a \o d : a \in Orders(definition.input_anchor_features),
              d \in Orders(definition.input_derived_features)}

delete_entity(reg, id) == delete_entity_by_id(reg, id)

\* ---------------------------------------------------------------- search
\* The query strings: "*" matches every document, any other string is a term
\* looked for in the names of a document.
matches(doc, q) ==
    q = "*" \/ \E k \in 1..Len(doc.name) : q \in Range(doc.name[k])

\* FtsIndex::search: the ids of the committed documents that match the query,
\* the types (all types when none is given) and the scope, from `offset` on
\* and at most `limit` of them.
fts_search(fts, q, types, scope, limit, offset) ==
    LET hits == SelectSeq(fts.docs,
                    LAMBDA d : /\ matches(d, q)
                               /\ (types = {} \/ d.type \in types)
                               /\ (scope = None \/ scope \in d.scopes))
    IN  [i \in 1..Min(limit, IF Len(hits) > offset THEN Len(hits) - offset ELSE 0) |->
            hits[offset + i].id]

\* A variant that finds tombstoned entities as well.
get_entity_by_id_unfiltered(reg, uuid) ==
    IF uuid \in DOMAIN reg.node_id_map
    THEN Ok(reg.graph.nodes[reg.node_id_map[uuid]])
    ELSE Err("None")

get_entity_by_id(reg, uuid) ==
    IF uuid \in DOMAIN reg.node_id_map /\ uuid \notin reg.deleted
    THEN Ok(reg.graph.nodes[reg.node_id_map[uuid]])
    ELSE Err("None")

\* RegistryProvider::search_entity: the entities found for the ids the index
\* returned, at most `limit` of them.
search_entity(reg, q, types, container, limit, offset) ==
    LET ids == fts_search(reg.fts_index, q, types, container, limit, offset)
        found == SelectSeq(ids, LAMBDA id : get_entity_by_id(reg, id).ok)
    IN  [i \in 1..Min(limit, Len(found)) |-> get_entity_by_id(reg, found[i]).val]

\* ---------------------------------------------------------------- request dispatcher
\* An id-or-name string of a request: a string Uuid::parse_str accepts (its
\* uuid is `id`), or any other string, taken as a qualified name.
by_id(uuid) == [parsed |-> TRUE, id |-> uuid, name |-> <<>>]

by_name(name) == [parsed |-> FALSE, id |-> None, name |-> name]

\* parse_uuid of a definition's id string; None stands for a string that is no uuid.
parse_uuid(s) == IF s = None THEN Err("BadRequest") ELSE Ok(s)

get_entity(reg, uuid) ==
    LET gi == get_idx(reg, uuid) IN
    IF gi.ok THEN Ok(reg.graph.nodes[gi.val]) ELSE gi

get_entity_id_by_qualified_name(reg, qualified_name) ==
    IF qualified_name \in DOMAIN reg.name_id_map
    THEN Ok(reg.name_id_map[qualified_name])
    ELSE Err("EntityNotFound")

get_entity_id(reg, name_or_id) ==
    IF name_or_id.parsed
    THEN LET e == get_entity(reg, name_or_id.id) IN IF e.ok THEN Ok(e.val.id) ELSE e
    ELSE get_entity_id_by_qualified_name(reg, name_or_id.name)

get_entity_name(reg, uuid) ==
    LET e == get_entity(reg, uuid) IN IF e.ok THEN Ok(e.val.name) ELSE e

get_id(reg, id_or_name) ==
    IF id_or_name.parsed THEN Ok(id_or_name.id) ELSE get_entity_id(reg, id_or_name)

get_name(reg, uuid) == get_entity_name(reg, uuid)

\* Ok(<<parent_id, child_id>>) or the error of the lookup that failed.
get_child_id(reg, parent_id_or_name, child_id_or_name) ==
    LET parent_id == get_id(reg, parent_id_or_name)
        child_id == get_id(reg, child_id_or_name)
    IN  IF ~parent_id.ok THEN parent_id
        ELSE IF child_id.ok THEN Ok(<<parent_id.val, child_id.val>>)
        ELSE LET project_name == get_name(reg, parent_id.val) IN
             IF ~project_name.ok THEN project_name
             ELSE LET id == get_id(reg, by_name(project_name.val \o child_id_or_name.name))
                  IN  IF id.ok THEN Ok(<<parent_id.val, id.val>>) ELSE id

\* The writing requests.  Every request carries every field; a request type
\* reads the fields it has.
CreateProjectReq(name) ==
    [type |-> "CreateProject", id |-> None, name |-> name,
     project_id_or_name |-> by_id(None),
     anchor_id_or_name |-> by_id(None), source_id |-> None,
     input_anchor_features |-> {}, input_derived_features |-> {}]

CreateProjectDataSourceReq(project_id_or_name, name) ==
    [CreateProjectReq(name) EXCEPT !.type = "CreateProjectDataSource",
                                   !.project_id_or_name = project_id_or_name]

CreateProjectAnchorReq(project_id_or_name, name, source_id) ==
    [CreateProjectReq(name) EXCEPT !.type = "CreateProjectAnchor",
                                   !.project_id_or_name = project_id_or_name,
                                   !.source_id = source_id]

CreateAnchorFeatureReq(project_id_or_name, anchor_id_or_name, name) ==
    [CreateProjectReq(name) EXCEPT !.type = "CreateAnchorFeature",
                                   !.project_id_or_name = project_id_or_name,
                                   !.anchor_id_or_name = anchor_id_or_name]

CreateProjectDerivedFeatureReq(project_id_or_name, name, anchor_features, derived_features) ==
    [CreateProjectReq(name) EXCEPT !.type = "CreateProjectDerivedFeature",
                                   !.project_id_or_name = project_id_or_name,
                                   !.input_anchor_features = anchor_features,
                                   !.input_derived_features = derived_features]

\* The definition given to the provider: the request's definition with its
\* qualified name, filed under the id drawn for it.
definition_of(request, guid, qualified_name) ==
    [id |-> guid, name |-> request.name, qualified_name |-> qualified_name,
     source_id |-> request.source_id,
     input_anchor_features |-> request.input_anchor_features,
     input_derived_features |-> request.input_derived_features]

\* The creation a request asks for under the project it names.
create_under(reg, type, project_id, definition, now, order) ==
    CASE type = "CreateProjectDataSource" ->
            new_source(reg, project_id, definition, now)
      [] type = "CreateProjectAnchor" ->
            IF ~parse_uuid(definition.source_id).ok
            THEN [reg |-> reg, res |-> parse_uuid(definition.source_id)]
            ELSE new_anchor(reg, project_id, definition, now)
      [] OTHER ->
            new_derived_feature(reg, project_id, definition, order, now)

\* A creation under a project: the lookups of the parent and its name, then
\* the creation with the parent's id and the definition.
under_project(reg, request, guid, now, order) ==
    LET project_id == get_id(reg, request.project_id_or_name) IN
    IF ~project_id.ok THEN [reg |-> reg, res |-> project_id]
    ELSE LET project_name == get_name(reg, project_id.val) IN
         IF ~project_name.ok THEN [reg |-> reg, res |-> project_name]
         ELSE create_under(reg, request.type, project_id.val,
                           definition_of(request, guid, project_name.val \o request.name),
                           now, order)

\* FeathrApiProvider::request: the creating requests, and the requests that
\* leave the graph as it is.  `guid` is the value
\* Uuid::new_v4() returns, `now` the clock's, `order` the iteration order of
\* the input sets of a derived feature.
handle_request(reg, request, guid, now, order) ==
    CASE request.type = "CreateProject" ->
            new_project(reg, definition_of(request, guid, request.name), now)
      [] request.type \in {"CreateProjectDataSource", "CreateProjectAnchor",
                           "CreateProjectDerivedFeature"} ->
            under_project(reg, request, guid, now, order)
      [] request.type = "CreateAnchorFeature" ->
            LET ids == get_child_id(reg, request.project_id_or_name,
                                    request.anchor_id_or_name)
            IN  IF ~ids.ok THEN [reg |-> reg, res |-> ids]
                ELSE new_anchor_feature(reg, ids.val[1], ids.val[2],
                                        definition_of(request, guid, <<>>), now)
      [] OTHER -> [reg |-> reg, res |-> Ok(None)]

\* ---------------------------------------------------------------- read operations
\* graph.edges(idx): the positions in graph.edges of the outgoing edges of
\* idx, the edge added last first.
out_edges(reg, idx) ==
    LET ks == SelectSeq([k \in 1..Len(reg.graph.edges) |-> k],
                        LAMBDA k : reg.graph.edges[k].source = idx)
    IN  [i \in 1..Len(ks) |-> ks[Len(ks) + 1 - i]]

\* The body of the for loop of bfs_traversal run over the edges ks: an edge
\* and its target are recorded unless they were.
RECURSIVE bfs_visit(_, _, _)
bfs_visit(reg, ks, st) ==
    IF ks = <<>> THEN st
    ELSE LET k == Head(ks)
             target == reg.graph.edges[k].target
             edges == IF k \in Range(st.edges) THEN st.edges ELSE Append(st.edges, k)
             entities == IF target \in Range(st.entities) THEN st.entities
                         ELSE Append(st.entities, target)
         IN  bfs_visit(reg, Tail(ks), [st EXCEPT !.edges = edges, !.entities = entities])

\* The traversal before its first iteration.
bfs_start(idx) == [entities |-> <<idx>>, edges |-> <<>>, offset |-> 0]

\* The condition of the while loop of bfs_traversal.
bfs_continues(size_limit, st) ==
    Len(st.entities) < size_limit /\ st.offset < Len(st.entities)

\* A variant that stays at the node it looked at.
bfs_step_stay(reg, size_limit, allowed, edge_types, st) ==
    LET next_edges ==
            SelectSeq(out_edges(reg, st.entities[st.offset + 1]),
                      LAMBDA k : /\ reg.graph.edges[k].weight.edge_type \in edge_types
                                 /\ reg.graph.edges[k].target \in allowed)
        taken == SubSeq(next_edges, 1, Min(size_limit - Len(st.entities), Len(next_edges)))
    IN  bfs_visit(reg, taken, st)

\* One iteration of the while loop of bfs_traversal.  `allowed` holds the
\* nodes entity_pred accepts, edge_types the edge types edge_pred accepts.
bfs_step(reg, size_limit, allowed, edge_types, st) ==
    LET next_edges ==
            SelectSeq(out_edges(reg, st.entities[st.offset + 1]),
                      LAMBDA k : /\ reg.graph.edges[k].weight.edge_type \in edge_types
                                 /\ reg.graph.edges[k].target \in allowed)
        taken == SubSeq(next_edges, 1, Min(size_limit - Len(st.entities), Len(next_edges)))
    IN  [bfs_visit(reg, taken, st) EXCEPT !.offset = @ + 1]

RECURSIVE bfs_loop(_, _, _, _, _)
bfs_loop(reg, size_limit, allowed, edge_types, st) ==
    IF bfs_continues(size_limit, st)
    THEN bfs_loop(reg, size_limit, allowed, edge_types,
                  bfs_step(reg, size_limit, allowed, edge_types, st))
    ELSE st

\* What bfs_traversal returns for the traversal st: the weights of the nodes
\* and of the edges, in the order discovered.
bfs_result(reg, st) ==
    [entities |-> [i \in 1..Len(st.entities) |-> reg.graph.nodes[st.entities[i]]],
     edges |-> [i \in 1..Len(st.edges) |-> reg.graph.edges[st.edges[i]].weight]]

bfs_traversal(reg, uuid, size_limit, allowed, edge_types) ==
    LET gi == get_idx(reg, uuid) IN
    IF ~gi.ok THEN gi
    ELSE Ok(bfs_result(reg, bfs_loop(reg, size_limit, allowed, edge_types,
                                     bfs_start(gi.val))))

\* A variant that follows the edges of every type.
bfs_any_edge(reg, uuid, edge_type, size_limit) ==
    bfs_traversal(reg, uuid, size_limit, 1..Len(reg.graph.nodes), EdgeTypes)

bfs(reg, uuid, edge_type, size_limit) ==
    bfs_traversal(reg, uuid, size_limit, 1..Len(reg.graph.nodes), {edge_type})

\* collect::<HashSet<Entity>>(): an entity is left out when one of the same
\* id was collected.  The order a HashSet is iterated in is unspecified; the
\* model keeps the order of insertion.
RECURSIVE collect_entities(_, _)
collect_entities(s, acc) ==
    IF s = <<>> THEN acc
    ELSE collect_entities(Tail(s),
            IF \E e \in Range(acc) : e.id = Head(s).id THEN acc ELSE Append(acc, Head(s)))

\* collect::<HashSet<Edge>>(): an edge is left out when one of the same from,
\* to and edge type was collected.
RECURSIVE collect_edges(_, _)
collect_edges(s, acc) ==
    IF s = <<>> THEN acc
    ELSE collect_edges(Tail(s),
            IF \E e \in Range(acc) : /\ e.from = Head(s).from
                                     /\ e.to = Head(s).to
                                     /\ e.edge_type = Head(s).edge_type
            THEN acc ELSE Append(acc, Head(s)))

\* A variant that chains the two traversals and collects nothing.
lineage_of_chained(upstream, downstream) ==
    [entities |-> upstream.entities \o downstream.entities,
     edges |-> upstream.edges \o downstream.edges]

\* What get_lineage returns for the two traversals.
lineage_of(upstream, downstream) ==
    [entities |-> collect_entities(upstream.entities \o downstream.entities, <<>>),
     edges |-> collect_edges(upstream.edges \o downstream.edges, <<>>)]

get_lineage(reg, id, size_limit) ==
    LET upstream == bfs(reg, id, "Consumes", size_limit)
        downstream == bfs(reg, id, "Produces", size_limit)
    IN  IF ~upstream.ok THEN upstream
        ELSE IF ~downstream.ok THEN downstream
        ELSE Ok(lineage_of(upstream.val, downstream.val))

has_connection_type(reg, from, to, edge_type) ==
    /\ get_idx(reg, from).ok
    /\ get_idx(reg, to).ok
    /\ \E k \in edges_connecting(reg, get_idx(reg, from).val, get_idx(reg, to).val) :
           reg.graph.edges[k].weight.edge_type = edge_type

\* The nodes graph.filter_map keeps in get_project_by_id: those the root has
\* a Contains edge to.
contained(reg, root) ==
    {idx \in 1..Len(reg.graph.nodes) :
        \E k \in edges_connecting(reg, root, idx) :
            reg.graph.edges[k].weight.edge_type = "Contains"}

\* The edges of the subgraph of get_project_by_id: filter_map hands the edge
\* closure the edges whose two endpoints were kept, and no other.
subgraph_edges(reg, uuid, kept) ==
    SelectSeq(reg.graph.edges,
              LAMBDA e : /\ e.source \in kept
                         /\ e.target \in kept
                         /\ \/ has_connection_type(reg, uuid, e.weight.from, "Contains")
                            \/ has_connection_type(reg, uuid, e.weight.to, "Contains"))

get_project_by_id(reg, uuid) ==
    LET root == get_idx(reg, uuid) IN
    IF ~root.ok THEN root
    ELSE LET kept == contained(reg, root.val)
             children == SelectSeq(reg.graph.nodes,
                                   LAMBDA w : reg.node_id_map[w.id] \in kept)
             edges == subgraph_edges(reg, uuid, kept)
         IN  Ok([entities |-> collect_entities(<<reg.graph.nodes[root.val]>> \o children, <<>>),
                 edges |-> collect_edges([i \in 1..Len(edges) |-> edges[i].weight], <<>>)])

get_project(reg, qualified_name) ==
    LET uuid == get_entity_id(reg, qualified_name) IN
    IF ~uuid.ok THEN uuid ELSE get_project_by_id(reg, uuid.val)

\* The size limit FeathrApiRequest::GetFeatureLineage passes to bfs.
lineage_size_limit == 100

\* FeathrApiRequest::GetFeatureLineage: the two traversals, one after the other.
GetFeatureLineage(reg, id_or_name) ==
    LET id == get_id(reg, id_or_name) IN
    IF ~id.ok THEN id
    ELSE LET up == bfs(reg, id.val, "Consumes", lineage_size_limit)
             down == bfs(reg, id.val, "Produces", lineage_size_limit)
         IN  IF ~up.ok THEN up
             ELSE IF ~down.ok THEN down
             ELSE Ok([entities |-> up.val.entities \o down.val.entities,
                      edges |-> up.val.edges \o down.val.edges])

\* get_neighbors of the provider: the entities the entity has an outgoing
\* edge of the type to, the edge added last first.
get_neighbor_entities(reg, uuid, edge_type) ==
    LET idx == get_idx(reg, uuid) IN
    IF ~idx.ok THEN idx
    ELSE LET found == get_neighbors_idx(reg, idx.val, {edge_type})
         IN  Ok([i \in 1..Len(found) |-> reg.graph.nodes[found[i]]])

\* A variant that takes a subject of any type.
get_children_of_any(reg, id, entity_types) ==
    LET children == get_neighbor_entities(reg, id, "Contains") IN
    IF ~children.ok THEN children
    ELSE Ok(SelectSeq(children.val, LAMBDA e : e.entity_type \in entity_types))

get_children(reg, id, entity_types) ==
    LET subject == get_entity(reg, id)
        children == get_neighbor_entities(reg, id, "Contains")
    IN  IF ~subject.ok THEN subject
        ELSE IF subject.val.entity_type \notin {"Project", "Anchor"}
            THEN Err("WrongEntityType")
        ELSE IF ~children.ok THEN children
        ELSE Ok(SelectSeq(children.val, LAMBDA e : e.entity_type \in entity_types))

get_entry_points(reg) ==
    [i \in 1..Len(reg.entry_points) |-> reg.graph.nodes[reg.entry_points[i]]]

get_project_names(reg) ==
    LET projects == SelectSeq(get_entry_points(reg), LAMBDA e : e.entity_type = "Project")
    IN  [i \in 1..Len(projects) |-> projects[i].qualified_name]

\* Registry::get_entity_by_name behind get_entity_by_qualified_name.
get_entity_by_qualified_name(reg, qualified_name) ==
    IF qualified_name \notin DOMAIN reg.name_id_map THEN Err("EntityNotFound")
    ELSE IF ~get_entity_by_id(reg, reg.name_id_map[qualified_name]).ok
        THEN Err("EntityNotFound")
    ELSE get_entity_by_id(reg, reg.name_id_map[qualified_name])

\* ---------------------------------------------------------------- state
VARIABLES
    registry,   \* a Registry value the requests are handled on directly
    clock,      \* what chrono::Utc::now() returns at present
    log,        \* the committed entries of the replicated log, a writing request each
    sm,         \* sm[n]: the state machine of node n, its last applied index and registry
    call,       \* the call of RaftRegistryApp::request made last
    traversal,  \* the lineage traversal in progress, if one is
    join,       \* the call of RaftRegistryApp::join_cluster in progress, if one is
    management, \* the node's configuration, the cluster membership and the management call made last
    guards,     \* guards[t]: what task t does with the lock of the state machine
    search_index \* an FtsIndex driven on its own, and the documents added while it was disabled

vars == <<registry, clock, log, sm, call, traversal, join, management, guards, search_index>>

\* The nodes of the cluster.  One node is the leader throughout.
Nodes == 1..(NumFollowers + 1)

Leader == CHOOSE n \in Nodes : \A m \in Nodes : n <= m

\* No call of the router was made yet.
no_call ==
    [pc |-> "done", node |-> Leader, writing |-> FALSE, opt_seq |-> None, check |-> "Ok",
     route |-> "none", status |-> "none", local_index |-> None, index |-> None,
     header |-> None]

\* The tasks that use the state machine of one node at the same time.
Tasks == 1..MaxTasks

\* The node was not started yet.
no_management ==
    [pc |-> "new", management_code |-> None, nodes |-> {}, members |-> {},
     last |-> [endpoint |-> "none", code |-> None, response |-> "none"]]

\* No task uses the state machine.
no_guards == [t \in Tasks |-> [pc |-> "idle", guard |-> "none"]]

\* A new index, nothing added.
no_search_index == [index |-> fts_new, added_disabled |-> {}, next_id |-> 1]

\* join_cluster was not called yet.
no_join == [pc |-> "idle", promote |-> FALSE, seeds |-> 0, tried |-> <<>>]

\* No traversal was started yet.
no_traversal ==
    [pc |-> "idle", id |-> None, size_limit |-> 0, upstream |-> bfs_start(None),
     st |-> bfs_start(None)]

Init ==
    /\ registry = registry_new
    /\ clock = 0
    /\ log = <<>>
    /\ sm = [n \in Nodes |-> [last_applied_log |-> None, registry |-> registry_new]]
    /\ call = no_call
    /\ traversal = no_traversal
    /\ join = no_join
    /\ management = no_management
    /\ guards = no_guards
    /\ search_index = no_search_index

\* ---------------------------------------------------------------- one registry

\* The values Uuid::new_v4() is drawn from: every id in use and one unused id.
new_ids(reg) == 1..Min(Len(reg.graph.nodes) + 1, MaxEntities + 1)

\* The id-or-name strings callers send.
IdOrNames == {by_id(u) : u \in Uuids} \cup {by_name(n) : n \in Names}

\* The input sets of a derived feature definition: at most MaxInputs ids in all.
InputSets ==
    {p \in (SUBSET Uuids) \X (SUBSET Uuids) :
        Cardinality(p[1]) + Cardinality(p[2]) <= MaxInputs}

\* The graph has room for one more node.
has_room(reg) == Len(reg.graph.nodes) < MaxEntities

\* The request is handled on the registry.
Handle(request) ==
    /\ has_room(registry)
    /\ \E guid \in new_ids(registry), order \in input_orders(request) :
           registry' = handle_request(registry, request, guid, clock, order).reg
    /\ UNCHANGED <<clock, log, sm, call, traversal, join, management, guards, search_index>>

CreateProject ==
    \E name \in Names : Handle(CreateProjectReq(name))

CreateProjectDataSource ==
    \E project \in IdOrNames, name \in Names :
        Handle(CreateProjectDataSourceReq(project, name))

CreateProjectAnchor ==
    \E project \in IdOrNames, name \in Names, source_id \in Uuids \cup {None} :
        Handle(CreateProjectAnchorReq(project, name, source_id))

CreateAnchorFeature ==
    \E project \in IdOrNames, anchor \in IdOrNames, name \in Names :
        Handle(CreateAnchorFeatureReq(project, anchor, name))

CreateProjectDerivedFeature ==
    \E project \in IdOrNames, name \in Names, inputs \in InputSets :
        Handle(CreateProjectDerivedFeatureReq(project, name, inputs[1], inputs[2]))

DeleteEntity ==
    \E id \in Uuids :
        /\ registry' = delete_entity(registry, id).reg
        /\ UNCHANGED <<clock, log, sm, call, traversal, join, management, guards, search_index>>

\* The registry is replaced by the one read from its own snapshot.
LoadSnapshot ==
    /\ registry' = load_snapshot(take_snapshot(registry))
    /\ UNCHANGED <<clock, log, sm, call, traversal, join, management, guards, search_index>>

Next ==
    \/ CreateProject
    \/ CreateProjectDataSource
    \/ CreateProjectAnchor
    \/ CreateAnchorFeature
    \/ CreateProjectDerivedFeature
    \/ DeleteEntity
    \/ LoadSnapshot

Spec == Init /\ [][Next]_vars

\* ---------------------------------------------------------------- lineage
\* A project and derived features under it, created through the provider with
\* definitions the caller fills in, and get_lineage run on them one loop
\* iteration at a time.

\* The project every feature is created under.
TheProject == [id |-> 1, name |-> <<"a">>, qualified_name |-> <<"a">>]

\* The definition of the derived feature that gets the identifier id.
feature_def(id, inputs) ==
    [id |-> id, name |-> [i \in 1..id |-> "f"],
     qualified_name |-> TheProject.name \o [i \in 1..id |-> "f"],
     source_id |-> None, input_anchor_features |-> {}, input_derived_features |-> inputs]

NewProject ==
    /\ traversal.pc = "idle"
    /\ registry = registry_new
    /\ registry' = new_project(registry, TheProject, clock).reg
    /\ UNCHANGED <<clock, log, sm, call, traversal, join, management, guards, search_index>>

\* A derived feature is created; it consumes features created before or
\* itself.
NewDerivedFeature ==
    /\ traversal.pc = "idle"
    /\ Len(registry.graph.nodes) \in 1..MaxFeatures
    /\ \E inputs \in SUBSET (2..(Len(registry.graph.nodes) + 1)) :
           /\ Cardinality(inputs) <= MaxInputs
           /\ \E order \in Orders(inputs) :
                  registry' = new_derived_feature(registry, TheProject.id,
                                  feature_def(Len(registry.graph.nodes) + 1, inputs),
                                  order, clock).reg
    /\ UNCHANGED <<clock, log, sm, call, traversal, join, management, guards, search_index>>

\* get_lineage is called: its first traversal begins.
StartLineage ==
    /\ traversal.pc = "idle"
    /\ \E id \in DOMAIN registry.node_id_map, size_limit \in SizeLimits :
           /\ get_idx(registry, id).ok
           /\ traversal' = [pc |-> "upstream", id |-> id, size_limit |-> size_limit,
                            upstream |-> bfs_start(None),
                            st |-> bfs_start(get_idx(registry, id).val)]
    /\ UNCHANGED <<registry, clock, log, sm, call, join, management, guards, search_index>>

\* The edge type the traversal in progress follows.
traversed_type == IF traversal.pc = "upstream" THEN "Consumes" ELSE "Produces"

\* One iteration of the while loop of the traversal in progress.
BfsStep ==
    /\ traversal.pc \in {"upstream", "downstream"}
    /\ bfs_continues(traversal.size_limit, traversal.st)
    /\ traversal' = [traversal EXCEPT
                        !.st = bfs_step(registry, traversal.size_limit,
                                        1..Len(registry.graph.nodes), {traversed_type}, @)]
    /\ UNCHANGED <<registry, clock, log, sm, call, join, management, guards, search_index>>

\* The loop of the first traversal is left: the second traversal begins.
BfsReturnUpstream ==
    /\ traversal.pc = "upstream"
    /\ ~bfs_continues(traversal.size_limit, traversal.st)
    /\ traversal' = [traversal EXCEPT
                        !.pc = "downstream", !.upstream = traversal.st,
                        !.st = bfs_start(get_idx(registry, traversal.id).val)]
    /\ UNCHANGED <<registry, clock, log, sm, call, join, management, guards, search_index>>

\* The loop of the second traversal is left: get_lineage returns.
BfsReturnDownstream ==
    /\ traversal.pc = "downstream"
    /\ ~bfs_continues(traversal.size_limit, traversal.st)
    /\ traversal' = [traversal EXCEPT !.pc = "done"]
    /\ UNCHANGED <<registry, clock, log, sm, call, join, management, guards, search_index>>

Traverse == BfsStep \/ BfsReturnUpstream \/ BfsReturnDownstream

NextLineage ==
    \/ NewProject
    \/ NewDerivedFeature
    \/ StartLineage
    \/ BfsStep
    \/ BfsReturnUpstream
    \/ BfsReturnDownstream

\* A traversal that began keeps running: nothing else is scheduled in the call.
SpecLineage == Init /\ [][NextLineage]_vars /\ WF_vars(Traverse)

\* ---------------------------------------------------------------- properties of one registry
\* The node indices of the entities that are not tombstoned.
live(reg) == {i \in 1..Len(reg.graph.nodes) : reg.graph.nodes[i].id \notin reg.deleted}

\* The edges of the graph as (from, to, edge type) triples.
edge_set(reg) ==
    {<<e.weight.from, e.weight.to, e.weight.edge_type>> : e \in Range(reg.graph.edges)}

\* The entity type of the node filed under an id.
type_of(reg, uuid) == reg.graph.nodes[reg.node_id_map[uuid]].entity_type

\* An unused id, if the graph were to grow.
fresh_id(reg) == Len(reg.graph.nodes) + 1

\* C8: two live entities with the same qualified name are the same entity.
NameUniqueness ==
    \A i, j \in live(registry) :
        registry.graph.nodes[i].qualified_name = registry.graph.nodes[j].qualified_name
            => registry.graph.nodes[i].id = registry.graph.nodes[j].id

\* Two live entities beside a tombstoned one, and a creation under a name in
\* use is being refused.
NameUniquenessWitness ==
    /\ Cardinality(live(registry)) >= 2
    /\ registry.deleted # {}
    /\ \E name \in Names :
           handle_request(registry, CreateProjectReq(name), fresh_id(registry), clock, <<>>).res
               = Err("EntityNameExists")

reflexive(reg) ==
    \A e \in edge_set(reg) : <<e[2], e[1], reflection(e[3])>> \in edge_set(reg)

\* C9: every edge (a, b, t) of the graph comes with the edge (b, a, reflection(t)),
\* in every reachable state, after connect with any edge type between any two
\* entities, and after any delete.
ReflexiveEdges ==
    /\ reflexive(registry)
    /\ \A from, to \in Uuids, t \in EdgeTypes : reflexive(connect(registry, from, to, t).reg)
    /\ \A id \in Uuids : reflexive(delete_entity(registry, id).reg)

\* Edges are left in the graph after an entity that had edges was deleted,
\* and connect can still add an edge of a downstream or an upstream type.
ReflexiveEdgesWitness ==
    /\ registry.graph.edges # <<>>
    /\ \E i \in 1..Len(registry.graph.nodes) :
           /\ registry.graph.nodes[i].id \in registry.deleted
           /\ registry.graph.nodes[i].entity_type # "Project"
    /\ \E from, to \in Uuids, t \in {"BelongsTo", "Consumes"} :
           edge_set(connect(registry, from, to, t).reg) # edge_set(registry)

\* C10: every edge of the graph is a triple of the validation matrix or the
\* reflection of one.
EdgeLegality ==
    \A e \in edge_set(registry) :
        \/ validate(e[3], type_of(registry, e[1]), type_of(registry, e[2]))
        \/ validate(reflection(e[3]), type_of(registry, e[2]), type_of(registry, e[1]))

\* The ids of the entities of type `entity_type` that the node at idx has an
\* edge of type `edge_type` to.
targets(reg, idx, edge_type, entity_type) ==
    {reg.graph.nodes[e.target].id :
        e \in {x \in Range(reg.graph.edges) :
                  /\ x.source = idx
                  /\ x.weight.edge_type = edge_type
                  /\ reg.graph.nodes[x.target].entity_type = entity_type}}

\* The back-references of the node at idx are what its edges say.
mirrors_edges(reg, idx) ==
    LET e == reg.graph.nodes[idx]
        a == e.properties.attributes
    IN  CASE e.entity_type = "Project" ->
                /\ a.anchors = targets(reg, idx, "Contains", "Anchor")
                /\ a.sources = targets(reg, idx, "Contains", "Source")
                /\ a.anchor_features = targets(reg, idx, "Contains", "AnchorFeature")
                /\ a.derived_features = targets(reg, idx, "Contains", "DerivedFeature")
          [] e.entity_type = "Anchor" ->
                /\ a.features = targets(reg, idx, "Contains", "AnchorFeature")
                /\ (IF a.source = None THEN {} ELSE {a.source})
                       = targets(reg, idx, "Consumes", "Source")
          [] e.entity_type = "DerivedFeature" ->
                /\ a.input_anchor_features = targets(reg, idx, "Consumes", "AnchorFeature")
                /\ a.input_derived_features = targets(reg, idx, "Consumes", "DerivedFeature")
          [] OTHER -> TRUE

\* C11: the back-references of every live Project, Anchor and DerivedFeature
\* are exactly the targets of its Contains and Consumes edges.
BackReferenceConsistency ==
    \A idx \in live(registry) : mirrors_edges(registry, idx)

\* The ids filed in the registry and not tombstoned.
live_ids(reg) == {reg.graph.nodes[i].id : i \in live(reg)}

\* The entity has an outgoing Contains or Produces edge to a live entity.
has_dependents(reg, id) ==
    \E e \in edge_set(reg) :
        e[1] = id /\ e[3] \in {"Contains", "Produces"} /\ e[2] \in live_ids(reg)

\* C12: deleting a live entity that has an outgoing Contains or Produces edge
\* to a live entity fails with DeleteInUsed and changes nothing; deleting a
\* live entity that has no such edge succeeds.
DeleteInUsed ==
    \A id \in live_ids(registry) :
        IF has_dependents(registry, id)
        THEN delete_entity_by_id(registry, id) = [reg |-> registry, res |-> Err("DeleteInUsed")]
        ELSE delete_entity_by_id(registry, id).res = Ok(None)

\* A project that holds a source is refused, and the source, which has edges,
\* can be deleted.
DeleteInUsedWitness ==
    \E a, b \in live_ids(registry) :
        /\ <<a, b, "Contains">> \in edge_set(registry)
        /\ delete_entity_by_id(registry, a).res = Err("DeleteInUsed")
        /\ delete_entity_by_id(registry, b).res = Ok(None)
        /\ registry.deleted # {}

\* C13: a successful delete removes the edges that have the deleted entity as
\* an endpoint, all of them and no other edge; no edge of the graph has a
\* tombstoned endpoint.
DeleteSafety ==
    /\ \A e \in edge_set(registry) : e[1] \notin registry.deleted /\ e[2] \notin registry.deleted
    /\ \A id \in Uuids :
           delete_entity_by_id(registry, id).res.ok
               => edge_set(delete_entity_by_id(registry, id).reg)
                     = {e \in edge_set(registry) : e[1] # id /\ e[2] # id}

\* An entity with edges in both directions can be deleted while edges between
\* other entities stay, after an earlier delete.
DeleteSafetyWitness ==
    /\ registry.deleted # {}
    /\ \E id \in live_ids(registry) :
           /\ delete_entity_by_id(registry, id).res.ok
           /\ \E e \in edge_set(registry) : e[1] = id
           /\ \E e \in edge_set(registry) : e[2] = id
           /\ edge_set(delete_entity_by_id(registry, id).reg) # {}

\* The ids a search for everything returns: every type, no scope, a limit
\* above the number of documents.
search_all(reg) ==
    {e.id : e \in Range(search_entity(reg, "*", {}, None,
                                      Len(reg.fts_index.docs) + 1, 0))}

\* C14: the search for everything returns the ids of the live entities.
FtsGraphAgreement == search_all(registry) = live_ids(registry)

\* The searches made of a registry.
Queries == {"*", "a"}

TypeSets == {{}, {"Project"}, {"Project", "Source"}}

Scopes == {None, 1}

\* C15: no search returns a tombstoned entity, whatever the query, the types,
\* the scope, the limit and the offset.
SearchSkipsDeleted ==
    \A q \in Queries, types \in TypeSets, scope \in Scopes,
       limit \in 1..MaxLimit, offset \in 0..MaxOffset :
        \A e \in Range(search_entity(registry, q, types, scope, limit, offset)) :
            e.id \notin registry.deleted

\* The index returns the id of a tombstoned entity for a search that returns
\* a live entity.
SearchSkipsDeletedWitness ==
    \E q \in Queries, types \in TypeSets :
        /\ \E k \in 1..MaxLimit :
               /\ k <= Len(fts_search(registry.fts_index, q, types, None, MaxLimit, 0))
               /\ fts_search(registry.fts_index, q, types, None, MaxLimit, 0)[k]
                      \in registry.deleted
        /\ search_entity(registry, q, types, None, MaxLimit, 0) # <<>>

\* The qualified names given to entities: a project's name, or a name under
\* a project's.
QualifiedNames == Names \cup {p \o n : p, n \in Names}

\* The id is tombstoned, is in the id index, and no insert or creation that
\* carries it succeeds.
never_reused(reg, id) ==
    /\ id \in reg.deleted
    /\ id \in DOMAIN reg.node_id_map
    /\ \A t \in EntityTypes, qualified_name \in QualifiedNames :
           insert_entity(reg, id, t, qualified_name, qualified_name,
                         prop_new_source([id |-> id], clock))
               = [reg |-> reg, res |-> Err("EntityIdExists")]
    /\ \A name \in Names :
           handle_request(reg, CreateProjectReq(name), id, clock, <<>>)
               = [reg |-> reg, res |-> Err("EntityIdExists")]

\* C16: the id of a deleted entity stays tombstoned and in the id index, and
\* every insert or creation carrying it fails, in the state the delete leaves
\* and in every later state, a state rebuilt from a snapshot included.
TombstonesKept ==
    [][\A id \in registry.deleted \cup registry'.deleted :
           never_reused(registry', id)]_vars

\* A registry rebuilt from a snapshot that holds a tombstoned id, with a
\* name still free for a creation under another id.
TombstonesKeptWitness ==
    /\ registry.deleted # {}
    /\ registry.fts_index.docs = <<>> /\ registry.fts_index.writer # <<>>
    /\ \E name \in Names :
           handle_request(registry, CreateProjectReq(name), fresh_id(registry), clock, <<>>).res.ok

\* The qualified names of the live entities.
live_names(reg) == {reg.graph.nodes[i].qualified_name : i \in live(reg)}

\* The qualified name a creating request gives its entity, when the project
\* it names is found.
qualified_name_of(reg, request) ==
    IF request.type = "CreateProject" THEN request.name
    ELSE get_name(reg, get_id(reg, request.project_id_or_name).val).val \o request.name

\* The project a creating request names is found, by id and by name.
project_found(reg, request) ==
    \/ request.type = "CreateProject"
    \/ /\ get_id(reg, request.project_id_or_name).ok
       /\ get_name(reg, get_id(reg, request.project_id_or_name).val).ok

\* The creating requests whose project is named by its qualified name.
NamedCreations ==
    {CreateProjectReq(n) : n \in Names}
        \cup {CreateProjectDataSourceReq(by_name(p), n) : p, n \in Names}
        \cup {CreateProjectAnchorReq(by_name(p), n, u) : p, n \in Names, u \in Uuids}
        \cup {CreateProjectDerivedFeatureReq(by_name(p), n, {}, {}) : p, n \in Names}

\* C17: an insert or a creation under a qualified name that a live entity
\* holds fails with EntityNameExists and leaves the registry as it was.
DuplicateRejection ==
    /\ \A qualified_name \in live_names(registry), t \in EntityTypes :
           insert_entity(registry, fresh_id(registry), t, qualified_name, qualified_name,
                         prop_new_source([id |-> fresh_id(registry)], clock))
               = [reg |-> registry, res |-> Err("EntityNameExists")]
    /\ \A request \in NamedCreations :
           (/\ project_found(registry, request)
            /\ qualified_name_of(registry, request) \in live_names(registry))
               => handle_request(registry, request, fresh_id(registry), clock, <<>>)
                     = [reg |-> registry, res |-> Err("EntityNameExists")]

\* A second source of the same name under a live project is refused, in a
\* registry that has edges.
DuplicateRejectionWitness ==
    /\ registry.graph.edges # <<>>
    /\ \E p, n \in Names :
           /\ p \o n \in live_names(registry)
           /\ handle_request(registry, CreateProjectDataSourceReq(by_name(p), n),
                             fresh_id(registry), clock, <<>>).res = Err("EntityNameExists")

\* C18: an insert under a fresh id and a qualified name that no live entity
\* holds (a tombstoned entity may) succeeds: the node is in the graph and in
\* both indices, and a project is in the entry-point list.
InsertUnderFreedName ==
    \A qualified_name \in QualifiedNames \ live_names(registry), t \in EntityTypes :
        LET id == fresh_id(registry)
            r == insert_entity(registry, id, t, qualified_name, qualified_name,
                               prop_new_source([id |-> id], clock))
        IN  /\ r.res = Ok(id)
            /\ id \in DOMAIN r.reg.node_id_map
            /\ r.reg.graph.nodes[r.reg.node_id_map[id]].qualified_name = qualified_name
            /\ r.reg.name_id_map[qualified_name] = id
            /\ t = "Project" => r.reg.node_id_map[id] \in Range(r.reg.entry_points)

\* C19: connect between two live entities, done twice, leaves the registry
\* that doing it once leaves: the same edges and the same back-references.
ConnectIdempotent ==
    \A a, b \in live_ids(registry), t \in EdgeTypes :
        connect(connect(registry, a, b, t).reg, a, b, t)
            = [reg |-> connect(registry, a, b, t).reg, res |-> Ok(None)]

\* A connect between two live entities that adds an edge and changes a
\* back-reference.
ConnectIdempotentWitness ==
    \E a, b \in live_ids(registry), t \in EdgeTypes :
        /\ edge_set(connect(registry, a, b, t).reg) # edge_set(registry)
        /\ connect(registry, a, b, t).reg.graph.nodes # registry.graph.nodes

\* The two endpoints after the connect hook and then the disconnect hook ran
\* on them.
connect_disconnect(from, to, edge_type) ==
    LET c == prop_connect(from, from.id, to, to.id, edge_type)
    IN  prop_disconnect(c[1], from.id, c[2], to.id, edge_type)

\* C20: the disconnect hook undoes the connect hook: run one after the other
\* on two entities, they leave the back-references of both as they were.
DisconnectInverse ==
    \A from, to \in Range(registry.graph.nodes), t \in EdgeTypes :
        /\ connect_disconnect(from, to, t)[1].properties = from.properties
        /\ connect_disconnect(from, to, t)[2].properties = to.properties

\* What the read operations of a registry work on: everything but the
\* search index.
content(reg) ==
    [graph |-> reg.graph, deleted |-> reg.deleted, node_id_map |-> reg.node_id_map,
     name_id_map |-> reg.name_id_map, entry_points |-> reg.entry_points]

\* C21: the registry rebuilt from the snapshot of a registry equals it in
\* nodes, edges, tombstones, id index, name index and entry-point list.
SnapshotRoundTrip ==
    content(load_snapshot(take_snapshot(registry))) = content(registry)

\* The identifiers of a sequence of entities.
ids_of(entities) == [i \in 1..Len(entities) |-> entities[i].id]

\* No value is at two positions of the sequence.
distinct(s) == \A i, j \in 1..Len(s) : i # j => s[i] # s[j]

\* C23: bfs returns at most size_limit entities, for every size_limit from 0
\* on; they are pairwise distinct and the starting entity is the first.
BfsSizeLimit ==
    \A id \in live_ids(registry), t \in EdgeTypes, size_limit \in SizeLimits :
        LET entities == bfs(registry, id, t, size_limit).val.entities
        IN  /\ Len(entities) <= size_limit
            /\ distinct(ids_of(entities))
            /\ entities # <<>> => entities[1].id = id

\* The nodes reached from the nodes of S along edges of type t, S included.
RECURSIVE reachable(_, _, _)
reachable(reg, S, t) ==
    LET next == S \cup {e.target : e \in {e \in Range(reg.graph.edges) :
                                            e.source \in S /\ e.weight.edge_type = t}}
    IN  IF next = S THEN S ELSE reachable(reg, next, t)

\* No entity has an edge to itself.
loop_free(reg) == \A e \in Range(reg.graph.edges) : e.source # e.target

\* C24: bfs returns min(size_limit, R) entities, R being the number of
\* entities reachable from the starting one along edges of the type; stated
\* for the size limits from 1 on and the graphs in which no entity has an
\* edge to itself.
BfsCount ==
    loop_free(registry) =>
        \A id \in live_ids(registry), t \in EdgeTypes, size_limit \in SizeLimits \ {0} :
            Len(bfs(registry, id, t, size_limit).val.entities)
                = Min(size_limit,
                      Cardinality(reachable(registry, {registry.node_id_map[id]}, t)))

\* C25: a lineage traversal that began comes to its end, whatever the graph
\* and the size limit are.
LineageTerminates ==
    (traversal.pc \in {"upstream", "downstream"}) ~> (traversal.pc = "done")

\* A traversal came to its end on a graph in which a feature consumes itself,
\* after it went round the loop.
LineageTerminatesWitness ==
    /\ traversal.pc = "done"
    /\ traversal.st.offset > 0
    /\ \E e \in Range(registry.graph.edges) :
           e.source = e.target /\ e.weight.edge_type = "Consumes"

\* C26: get_lineage returns the union of the entities and of the edges of
\* bfs along Consumes and bfs along Produces, each entity and each edge once.
LineageUnion ==
    traversal.pc = "done" =>
        LET upstream == bfs(registry, traversal.id, "Consumes", traversal.size_limit).val
            downstream == bfs(registry, traversal.id, "Produces", traversal.size_limit).val
            lineage == get_lineage(registry, traversal.id, traversal.size_limit).val
        IN  /\ upstream = bfs_result(registry, traversal.upstream)
            /\ downstream = bfs_result(registry, traversal.st)
            /\ Range(lineage.entities) = Range(upstream.entities) \cup Range(downstream.entities)
            /\ Range(lineage.edges) = Range(upstream.edges) \cup Range(downstream.edges)
            /\ distinct(ids_of(lineage.entities))
            /\ distinct(lineage.edges)

\* A lineage of a feature that consumes one feature and produces another:
\* both traversals found the feature and one more entity.
LineageUnionWitness ==
    /\ traversal.pc = "done"
    /\ Len(traversal.upstream.entities) > 1
    /\ Len(traversal.st.entities) > 1
    /\ Len(get_lineage(registry, traversal.id, traversal.size_limit).val.entities) = 3
    /\ loop_free(registry)

\* The positions of the live projects.
live_projects(reg) == {i \in live(reg) : reg.graph.nodes[i].entity_type = "Project"}

\* C27: get_project returns the project, every node the project Contains,
\* and every edge with an endpoint among those nodes.
ProjectView ==
    \A i \in live_projects(registry) :
        LET view == get_project(registry, by_name(registry.graph.nodes[i].qualified_name)).val
            children == contained(registry, i)
        IN  /\ Range(ids_of(view.entities))
                   = {registry.graph.nodes[j].id : j \in {i} \cup children}
            /\ Range(view.edges)
                   = {e.weight : e \in {e \in Range(registry.graph.edges) :
                                           e.source \in children \/ e.target \in children}}

\* The creations of an anchor feature asked for on the registry, each with
\* the project and the anchor the request resolves to.
AnchorFeatureCreations(reg) ==
    {[request |-> CreateAnchorFeatureReq(project, anchor, name),
      ids |-> get_child_id(reg, project, anchor)] :
        project \in IdOrNames, anchor \in IdOrNames, name \in Names}

\* The ids of the entities the entity has a Consumes edge to.
consumed(reg, id) == {e[2] : e \in {x \in edge_set(reg) : x[1] = id /\ x[3] = "Consumes"}}

\* The plumbing of the anchor feature f under project p and anchor a, the
\* anchor consuming `sources`: the edges, their reflections and the lineage.
plumbed(reg, p, a, f, sources) ==
    /\ {<<p, f, "Contains">>, <<f, p, "BelongsTo">>,
        <<a, f, "Contains">>, <<f, a, "BelongsTo">>} \subseteq edge_set(reg)
    /\ \A s \in sources :
           /\ {<<f, s, "Consumes">>, <<s, f, "Produces">>} \subseteq edge_set(reg)
           /\ s \in Range(ids_of(GetFeatureLineage(reg, by_id(f)).val.entities))
           /\ [from |-> f, to |-> s, edge_type |-> "Consumes"]
                  \in Range(GetFeatureLineage(reg, by_id(f)).val.edges)

\* The request names a live project and a live anchor of the registry.
names_project_and_anchor(reg, c) ==
    /\ c.ids.ok
    /\ {c.ids.val[1], c.ids.val[2]} \subseteq live_ids(reg)
    /\ type_of(reg, c.ids.val[1]) = "Project"
    /\ type_of(reg, c.ids.val[2]) = "Anchor"

\* C28: after an anchor feature was created under a project and an anchor,
\* the project and the anchor contain it and it consumes every source the
\* anchor consumed, so that its lineage holds them.
AnchorFeaturePlumbing ==
    \A c \in AnchorFeatureCreations(registry) :
        (/\ names_project_and_anchor(registry, c)
         /\ handle_request(registry, c.request, fresh_id(registry), clock, <<>>).res.ok)
            => plumbed(handle_request(registry, c.request, fresh_id(registry), clock, <<>>).reg,
                       c.ids.val[1], c.ids.val[2], fresh_id(registry),
                       consumed(registry, c.ids.val[2]))

\* An anchor feature is created under an anchor that consumes a source.
AnchorFeaturePlumbingWitness ==
    \E c \in AnchorFeatureCreations(registry) :
        /\ names_project_and_anchor(registry, c)
        /\ handle_request(registry, c.request, fresh_id(registry), clock, <<>>).res.ok
        /\ \E s \in consumed(registry, c.ids.val[2]) : type_of(registry, s) = "Source"

\* The live entities the entity contains directly whose type is in the set.
contained_live(reg, id, entity_types) ==
    {c \in live_ids(reg) : <<id, c, "Contains">> \in edge_set(reg)
                           /\ type_of(reg, c) \in entity_types}

\* C29: get_children fails with WrongEntityType unless the subject is a
\* Project or an Anchor; otherwise it returns the live entities the subject
\* contains directly whose type is in the given set, and no other.
ChildrenOfProjectOrAnchor ==
    \A id \in live_ids(registry), entity_types \in SUBSET EntityTypes :
        IF type_of(registry, id) \in {"Project", "Anchor"}
        THEN /\ get_children(registry, id, entity_types).ok
             /\ Range(ids_of(get_children(registry, id, entity_types).val))
                    = contained_live(registry, id, entity_types)
             /\ distinct(ids_of(get_children(registry, id, entity_types).val))
        ELSE get_children(registry, id, entity_types) = Err("WrongEntityType")

\* A project has two children, get_children returns one of them for a type
\* set, and an entity that is neither Project nor Anchor is refused.
ChildrenOfProjectOrAnchorWitness ==
    /\ \E id \in live_ids(registry), entity_types \in SUBSET EntityTypes :
           /\ type_of(registry, id) = "Project"
           /\ Len(get_children(registry, id, entity_types).val) = 1
           /\ Cardinality(contained_live(registry, id, EntityTypes)) = 2
    /\ \E id \in live_ids(registry) :
           get_children(registry, id, EntityTypes) = Err("WrongEntityType")

\* The ids of the entities a read operation that returns entities returned,
\* none when it failed.
returned(result) == IF result.ok THEN Range(ids_of(result.val)) ELSE {}

\* The ids of the entities of a traversal or a view, none when it failed.
returned_entities(result) == IF result.ok THEN Range(ids_of(result.val.entities)) ELSE {}

\* The ids returned by the reads that start at a live entity or at a name.
reads_from_live(reg) ==
    UNION {returned(get_neighbor_entities(reg, a, t))
              \cup returned(get_children(reg, a, EntityTypes))
              \cup returned_entities(get_project_by_id(reg, a))
              \cup UNION {returned_entities(bfs(reg, a, t, size_limit))
                             \cup returned_entities(get_lineage(reg, a, size_limit)) :
                          size_limit \in SizeLimits} :
           a \in live_ids(reg), t \in EdgeTypes}

\* C22: no read operation returns a tombstoned entity or resolves a name to
\* its id.
TombstonesFiltered ==
    \A id \in registry.deleted :
        /\ ~get_entity(registry, id).ok
        /\ \A q \in DOMAIN registry.name_id_map :
               /\ id \notin returned_entities(get_project(registry, by_name(q)))
               /\ get_entity_by_qualified_name(registry, q).ok
                      => get_entity_by_qualified_name(registry, q).val.id # id
               /\ get_entity_id_by_qualified_name(registry, q) # Ok(id)
        /\ id \notin Range(ids_of(get_entry_points(registry)))
        /\ registry.graph.nodes[registry.node_id_map[id]].qualified_name
               \notin Range(get_project_names(registry))
        /\ id \notin reads_from_live(registry)
        /\ id \notin search_all(registry)

\* The Consumes edges from a derived feature to a derived feature.
derived_consumes(reg) ==
    {e \in Range(reg.graph.edges) :
        /\ e.weight.edge_type = "Consumes"
        /\ reg.graph.nodes[e.source].entity_type = "DerivedFeature"
        /\ reg.graph.nodes[e.target].entity_type = "DerivedFeature"}

\* C34: no derived feature is reached back from a derived feature it consumes,
\* itself included: the Consumes edges among derived features have no cycle.
NoDerivedFeatureCycle ==
    \A e \in derived_consumes(registry) :
        e.source \notin reachable(registry, {e.target}, "Consumes")

\* What the creation operations of the provider return on the registry for a
\* new entity with a fresh id, under every parent id, anchor id, source id and
\* input set.
creation_results(reg, now) ==
    LET def(request) ==
            definition_of(request, fresh_id(reg), request.name \o request.name)
    IN  {new_source(reg, p, def(CreateProjectDataSourceReq(by_id(p), n)), now) :
            p \in Uuids, n \in Names}
        \cup {new_anchor(reg, p, def(CreateProjectAnchorReq(by_id(p), n, s)), now) :
                p \in Uuids, n \in Names, s \in Uuids}
        \cup {new_anchor_feature(reg, p, a,
                                 def(CreateAnchorFeatureReq(by_id(p), by_id(a), n)), now) :
                p \in Uuids, a \in Uuids, n \in Names}
        \cup UNION {{new_derived_feature(reg, p1[1],
                         def(CreateProjectDerivedFeatureReq(by_id(p1[1]), p1[2],
                                                            p1[3][1], p1[3][2])),
                         order, now) :
                        order \in input_orders(
                            CreateProjectDerivedFeatureReq(by_id(p1[1]), p1[2],
                                                           p1[3][1], p1[3][2]))} :
                    p1 \in Uuids \X Names \X InputSets}

\* C36: a creation that returns an error leaves the registry as it was.
FailedCreationAtomic ==
    \A r \in creation_results(registry, clock) : ~r.res.ok => r.reg = registry

\* The ids of the live entities that have a Contains edge to the entity.
containing(reg, id) ==
    {e[1] : e \in {x \in edge_set(reg) :
                      x[2] = id /\ x[3] = "Contains" /\ x[1] \in live_ids(reg)}}

\* C37: the containers of every live entity are the live entities that have
\* a Contains edge to it.
ContainersMirror ==
    \A i \in live(registry) :
        registry.graph.nodes[i].containers = containing(registry, registry.graph.nodes[i].id)

\* C38: every edge bfs returns has the edge type asked for and both of its
\* endpoints among the entities returned with it, and is returned once.
BfsEdges ==
    \A id \in live_ids(registry), t \in EdgeTypes, size_limit \in SizeLimits :
        LET r == bfs(registry, id, t, size_limit).val
            ids == Range(ids_of(r.entities))
        IN  /\ \A i \in 1..Len(r.edges) :
                   /\ r.edges[i].edge_type = t
                   /\ r.edges[i].from \in ids
                   /\ r.edges[i].to \in ids
            /\ distinct(r.edges)

\* A traversal that the size limit cut short returned two edges or more, from
\* an entity that has edges of another type as well.
BfsEdgesWitness ==
    \E id \in live_ids(registry), t \in EdgeTypes, size_limit \in SizeLimits :
        LET r == bfs(registry, id, t, size_limit).val IN
        /\ Len(r.edges) >= 2
        /\ Len(r.entities) = size_limit
        /\ Len(r.entities) < Cardinality(reachable(registry, {registry.node_id_map[id]}, t))
        /\ \E e \in edge_set(registry) : e[1] = id /\ e[3] # t

\* The indices of the registry agree with its graph.
consistent(reg) ==
    LET nodes == reg.graph.nodes IN
    /\ DOMAIN reg.node_id_map = {nodes[i].id : i \in 1..Len(nodes)}
    /\ \A i \in 1..Len(nodes) : reg.node_id_map[nodes[i].id] = i
    /\ DOMAIN reg.name_id_map = {nodes[i].qualified_name : i \in 1..Len(nodes)}
    /\ \A i \in 1..Len(nodes) : reg.name_id_map[nodes[i].qualified_name] = nodes[i].id
    /\ distinct(reg.entry_points)
    /\ Range(reg.entry_points) = {i \in 1..Len(nodes) : nodes[i].entity_type = "Project"}

\* The registry Registry::load makes of the entities and edges of a registry.
loaded(reg) ==
    load(reg.graph.nodes, [k \in 1..Len(reg.graph.edges) |-> reg.graph.edges[k].weight])

\* C39: the id index maps the id of every node to the node, the name index
\* the qualified name of every node to the node's id, neither has another
\* entry, and the entry points are the Project nodes, each once; in the
\* registry, and in the one loaded from its entities and edges.
IndexConsistency ==
    /\ consistent(registry)
    /\ loaded(registry).res.ok /\ consistent(loaded(registry).reg)

\* A registry rebuilt from a snapshot (its documents are not committed) that
\* holds a tombstone and a live project with a live entity in it.
IndexConsistencyWitness ==
    /\ registry.fts_index.writer # <<>>
    /\ registry.deleted # {}
    /\ \E e \in edge_set(registry) :
           /\ e[3] = "Contains" /\ e[1] # e[2]
           /\ {e[1], e[2]} \subseteq live_ids(registry)
           /\ type_of(registry, e[1]) = "Project"
    /\ Len(loaded(registry).reg.graph.edges) = Len(registry.graph.edges)

\* The ids that are tombstoned or name no entity.
gone(reg) == {id \in Uuids : id \in reg.deleted \/ id \notin DOMAIN reg.node_id_map}

\* C40: no edge has a tombstoned entity as an endpoint; connect and delete
\* fail with InvalidEntity on a tombstoned or unknown id and leave the
\* registry as it was.
TombstoneIsolation ==
    /\ \A e \in edge_set(registry) : e[1] \notin registry.deleted /\ e[2] \notin registry.deleted
    /\ \A id \in gone(registry) :
           /\ delete_entity_by_id(registry, id)
                  = [reg |-> registry, res |-> Err("InvalidEntity")]
           /\ \A other \in Uuids, t \in EdgeTypes :
                  /\ connect(registry, id, other, t)
                         = [reg |-> registry, res |-> Err("InvalidEntity")]
                  /\ connect(registry, other, id, t)
                         = [reg |-> registry, res |-> Err("InvalidEntity")]

\* An entity that had edges was deleted, beside live entities that have edges
\* and an id that names no entity.
TombstoneIsolationWitness ==
    /\ \E id \in registry.deleted :
           registry.graph.nodes[registry.node_id_map[id]].entity_type # "Project"
    /\ registry.graph.edges # <<>>
    /\ \E id \in Uuids : id \notin DOMAIN registry.node_id_map

\* ---------------------------------------------------------------- Raft router
GetProjectsReq == [CreateProjectReq(<<>>) EXCEPT !.type = "GetProjects"]

\* A request that changes a user's role: a writing request that leaves the
\* graph as it is.
AddUserRoleReq == [CreateProjectReq(<<>>) EXCEPT !.type = "AddUserRole"]

is_writing_request(request) ==
    request.type \in {"CreateProject", "CreateProjectDataSource", "CreateProjectAnchor",
                      "CreateAnchorFeature", "CreateProjectDerivedFeature", "AddUserRole"}

\* The state machine after it applied the entry at `index`, `result` being
\* what the registry returned for the entry's request.
apply_to_state_machine(machine, index, result) ==
    [last_applied_log |-> index, registry |-> result.reg]

\* The values Uuid::new_v4() returns while an entry is applied.
Guids == 1..MaxGuid

\* What raft.is_leader() may return on a node: Ok on the leader alone,
\* ForwardToLeader on the others, and any other error on every node.
leader_checks(n) == IF n = Leader THEN {"Ok", "Err"} ELSE {"ForwardToLeader", "Err"}

\* The first half of RaftRegistryApp::request: <<is_leader, should_forward>>.
should_forward(check, opt_seq, last_applied_log) ==
    CASE check = "Ok" -> <<TRUE, FALSE>>
      [] check = "ForwardToLeader" ->
            IF opt_seq # None
            THEN IF last_applied_log # None THEN <<FALSE, last_applied_log < opt_seq>>
                 ELSE <<FALSE, TRUE>>
            ELSE <<FALSE, TRUE>>
      [] OTHER -> <<TRUE, FALSE>>

\* The branch RaftRegistryApp::request takes.
\* A variant of it that hands every request handled on the node to the local registry.
route_all_local(check, opt_seq, last_applied_log, writing) ==
    IF should_forward(check, opt_seq, last_applied_log)[2] THEN "forward" ELSE "local"

route(check, opt_seq, last_applied_log, writing) ==
    LET d == should_forward(check, opt_seq, last_applied_log) IN
    IF d[2] THEN "forward"
    ELSE IF writing THEN IF d[1] THEN "client_write" ELSE "bad_request"
    ELSE "local"

\* The record of a call that took a branch, before its outcome is filled in:
\* `local_index` is the last applied index of the node when it took the branch,
\* `index` the log index of the entry a write became, or the last applied
\* index of the state machine a read was answered from.
routed(n, opt_seq, request, check, branch) ==
    [pc |-> "resolved", node |-> n, writing |-> is_writing_request(request),
     opt_seq |-> opt_seq, check |-> check, route |-> branch, status |-> "InternalError",
     local_index |-> sm[n].last_applied_log, index |-> None, header |-> None]

\* How a call that took `branch` on node n ends.  A forwarded call is handled
\* by the leader, as a client-write or by the leader's registry, unless the
\* forwarding fails; raft.client_write succeeds on the leader alone, and may
\* fail there.
outcome(branch, n, writing, delivered) ==
    CASE branch = "forward" ->
            IF ~delivered THEN "failed" ELSE IF writing THEN "client_write" ELSE "local"
      [] branch = "client_write" ->
            IF n = Leader /\ delivered THEN "client_write" ELSE "failed"
      [] OTHER -> branch

\* The values Uuid::new_v4() returns while a request is handled.
guids_for(request) == IF is_writing_request(request) THEN Guids ELSE {None}

\* raft.client_write on the leader: the entry is appended to the log and
\* applied to the leader's state machine; `result` is what the registry
\* returned for it, and the response.
ClientWrite(c, request, result) ==
    /\ Len(log) < MaxLog
    /\ log' = Append(log, request)
    /\ sm' = [sm EXCEPT ![Leader] = apply_to_state_machine(@, Len(log) + 1, result)]
    /\ call' = [c EXCEPT !.index = Len(log) + 1,
                         !.status = IF result.res.ok THEN "Ok" ELSE result.res.err]

\* The registry of node m handles the request under the guard of its state
\* machine; `result` is what it returned.
LocalRequest(c, m, result) ==
    /\ sm' = [sm EXCEPT ![m].registry = result.reg]
    /\ call' = [c EXCEPT !.index = sm[m].last_applied_log, !.status = "Ok"]
    /\ UNCHANGED <<log, traversal, join, management, guards, search_index>>

\* A response that comes with no change of the log or a state machine.
Respond(c, status) ==
    /\ call' = [c EXCEPT !.status = status]
    /\ UNCHANGED <<log, sm, traversal, join, management, guards, search_index>>

\* RaftRegistryApp::request(opt_seq, req) on node n, up to its response.
Request(n, opt_seq, request) ==
    /\ call.pc = "done"
    /\ \E check \in leader_checks(n), delivered \in BOOLEAN,
          guid \in guids_for(request), order \in input_orders(request) :
        LET writing == is_writing_request(request)
            branch == route(check, opt_seq, sm[n].last_applied_log, writing)
            handler == IF branch = "forward" THEN Leader ELSE n
            end == outcome(branch, n, writing, delivered)
            c == routed(n, opt_seq, request, check, branch)
        IN  \/ /\ end = "client_write"
               /\ ClientWrite(c, request,
                      handle_request(sm[Leader].registry, request, guid, clock, order))
            \/ /\ end = "local"
               /\ LocalRequest(c, handler,
                      handle_request(sm[handler].registry, request, guid, clock, order))
            \/ /\ end = "bad_request"
               /\ Respond(c, "BadRequest")
            \/ /\ end = "failed"
               /\ Respond(c, "InternalError")
    /\ UNCHANGED <<registry, clock, traversal, join, management, guards, search_index>>

\* The writing requests sent to the cluster, before the handler gave them an id.
RaftWrites ==
    {CreateProjectReq(<<"a">>), CreateProjectDataSourceReq(by_name(<<"a">>), <<"b">>)}

\* The barriers callers send: none, or a log index.
OptSeqs == {None} \cup (1..MaxLog)

\* A creating HTTP handler: it gives the definition an id and calls the
\* router without a barrier.
HttpCreate ==
    \E n \in Nodes, request \in RaftWrites :
        Request(n, None, [request EXCEPT !.id = Len(log) + 1])

\* A writing HTTP handler that hands the caller's barrier to the router.
HttpWrite ==
    \E n \in Nodes, opt_seq \in OptSeqs : Request(n, opt_seq, AddUserRoleReq)

\* A reading HTTP handler.
HttpRead ==
    \E n \in Nodes, opt_seq \in OptSeqs : Request(n, opt_seq, GetProjectsReq)

\* RaftSequencerImpl::call after the handler resolved: the header holds the
\* last applied index of the node that received the call, if it has one.
RaftSequencer ==
    /\ call.pc = "resolved"
    /\ call' = [call EXCEPT !.pc = "done", !.header = sm[call.node].last_applied_log]
    /\ UNCHANGED <<registry, clock, log, sm, traversal, join, management, guards, search_index>>

\* A follower applies the next entry of the log.
Apply ==
    \E n \in Nodes \ {Leader} :
        /\ sm[n].last_applied_log < Len(log)
        /\ LET index == sm[n].last_applied_log + 1 IN
           \E guid \in Guids, order \in input_orders(log[index]) :
               sm' = [sm EXCEPT ![n] =
                        apply_to_state_machine(@, index,
                            handle_request(@.registry, log[index], guid, clock, order))]
        /\ UNCHANGED <<registry, clock, log, call, traversal, join, management, guards, search_index>>

Tick ==
    /\ clock < MaxClock
    /\ clock' = clock + 1
    /\ UNCHANGED <<registry, log, sm, call, traversal, join, management, guards, search_index>>

NextRaft ==
    \/ HttpCreate
    \/ HttpWrite
    \/ HttpRead
    \/ RaftSequencer
    \/ Apply
    \/ Tick

SpecRaft == Init /\ [][NextRaft]_vars

\* ---------------------------------------------------------------- joining a cluster
\* RaftRegistryApp::join_cluster, one seed at a time.  What the seed and the
\* leader answer is given by the first step that fails, "none" when every
\* step that is made succeeds.
JoinSteps ==
    <<"metrics", "current_leader", "leader_node", "add_learner", "leader_metrics",
      "change_membership">>

FailingSteps == Range(JoinSteps) \cup {"none"}

\* The position of a step among the steps of one attempt.
step_no(step) == CHOOSE i \in 1..Len(JoinSteps) : JoinSteps[i] = step

\* The step succeeds in an attempt whose first failing step is `failing`.
passes(step, failing) == failing = "none" \/ step_no(step) < step_no(failing)

\* The body of the for loop returns Ok(()) for the seed.
returns_ok(promote, failing) ==
    /\ passes("metrics", failing)
    /\ passes("current_leader", failing)
    /\ passes("leader_node", failing)
    /\ passes("add_learner", failing)
    /\ promote
    /\ passes("leader_metrics", failing)
    /\ passes("change_membership", failing)

StartJoin ==
    /\ join.pc = "idle"
    /\ \E seeds \in 0..MaxSeeds, promote \in BOOLEAN :
           join' = [pc |-> "run", promote |-> promote, seeds |-> seeds, tried |-> <<>>]
    /\ UNCHANGED <<registry, clock, log, sm, call, traversal, management, guards, search_index>>

\* The next seed is tried.
TrySeed ==
    /\ join.pc = "run"
    /\ join.seeds > 0
    /\ \E failing \in FailingSteps :
           join' = [join EXCEPT
                       !.pc = IF returns_ok(join.promote, failing) THEN "ok" ELSE "run",
                       !.seeds = @ - 1,
                       !.tried = Append(@, failing)]
    /\ UNCHANGED <<registry, clock, log, sm, call, traversal, management, guards, search_index>>

\* No seed is left: join_cluster returns the error.
SeedsExhausted ==
    /\ join.pc = "run"
    /\ join.seeds = 0
    /\ join' = [join EXCEPT !.pc = "err"]
    /\ UNCHANGED <<registry, clock, log, sm, call, traversal, management, guards, search_index>>

NextJoin ==
    \/ StartJoin
    \/ TrySeed
    \/ SeedsExhausted

SpecJoin == Init /\ [][NextJoin]_vars

\* Leader discovery, add_learner and, when promotion was asked for, the
\* membership change succeeded in the attempt.
joined(promote, failing) ==
    /\ passes("add_learner", failing)
    /\ promote => passes("change_membership", failing)

\* C30: join_cluster returns success as soon as an attempt joined, and the
\* error only when no attempt did.
JoinOutcome ==
    /\ join.pc = "ok" =>
           /\ joined(join.promote, join.tried[Len(join.tried)])
           /\ \A i \in 1..(Len(join.tried) - 1) : ~joined(join.promote, join.tried[i])
    /\ join.pc = "err" => \A i \in 1..Len(join.tried) : ~joined(join.promote, join.tried[i])
    /\ join.pc = "run" => \A i \in 1..Len(join.tried) : ~joined(join.promote, join.tried[i])

\* ---------------------------------------------------------------- management endpoints
\* The management codes: None is a code that is not configured or not supplied.
Codes == 0..MaxCode

NodeIds == 1..MaxNodeId

\* RaftRegistryApp::check_code: the supplied code against the configured one.
check_code(configured, code) ==
    IF configured # None
    THEN IF code # None
         THEN IF configured = code THEN Ok(None) ELSE Err("Forbidden")
         ELSE Err("Forbidden")
    ELSE Ok(None)

\* Raft::add_learner: the node becomes a learner of the cluster.
raft_add_learner(m, node_id) == [m EXCEPT !.nodes = @ \cup {node_id}]

\* Raft::change_membership(members, true, false): the learners named become
\* the voters, the voters left out leave the cluster; a set that is empty or
\* names a node that is no learner is an error, reported in the body.
raft_change_membership(m, members) ==
    IF members # {} /\ members \subseteq m.nodes
    THEN [m EXCEPT !.members = members,
                   !.nodes = {n \in @ : n \notin m.members \/ n \in members}]
    ELSE m

\* The handlers of /add-learner, /change-membership and /metrics: each answers
\* Ok(Json(res)); the code the caller supplied is not looked at.
add_learner(m, code, node_id) ==
    [raft_add_learner(m, node_id) EXCEPT
        !.last = [endpoint |-> "add-learner", code |-> code, response |-> "Ok"]]

change_membership(m, code, members) ==
    [raft_change_membership(m, members) EXCEPT
        !.last = [endpoint |-> "change-membership", code |-> code, response |-> "Ok"]]

metrics(m, code) ==
    [m EXCEPT !.last = [endpoint |-> "metrics", code |-> code, response |-> "Ok"]]

\* RaftRegistryApp::new with the management code of the configuration, then
\* init: the node is the one member of its cluster.
StartNode ==
    /\ management.pc = "new"
    /\ \E configured \in Codes :
           management' = [no_management EXCEPT !.pc = "serving",
                                               !.management_code = configured,
                                               !.nodes = {1}, !.members = {1}]
    /\ UNCHANGED <<registry, clock, log, sm, call, traversal, join, guards, search_index>>

AddLearner ==
    /\ management.pc = "serving"
    /\ \E code \in Codes, node_id \in NodeIds :
           management' = add_learner(management, code, node_id)
    /\ UNCHANGED <<registry, clock, log, sm, call, traversal, join, guards, search_index>>

ChangeMembership ==
    /\ management.pc = "serving"
    /\ \E code \in Codes, members \in SUBSET NodeIds :
           management' = change_membership(management, code, members)
    /\ UNCHANGED <<registry, clock, log, sm, call, traversal, join, guards, search_index>>

Metrics ==
    /\ management.pc = "serving"
    /\ \E code \in Codes : management' = metrics(management, code)
    /\ UNCHANGED <<registry, clock, log, sm, call, traversal, join, guards, search_index>>

NextManagement ==
    \/ StartNode
    \/ AddLearner
    \/ ChangeMembership
    \/ Metrics

SpecManagement == Init /\ [][NextManagement]_vars

\* C31: with a management code configured, a management call whose code is
\* missing or different is answered Forbidden and leaves the membership as it
\* was; every other call is accepted.
ManagementCodeCheck ==
    [][management.pc = "serving" =>
          IF check_code(management.management_code, management'.last.code).ok
          THEN management'.last.response = "Ok"
          ELSE /\ management'.last.response = "Forbidden"
               /\ management'.nodes = management.nodes
               /\ management'.members = management.members]_vars

\* ---------------------------------------------------------------- state machine lock
\* The RwLock of the state machine.  A task is "idle", waits for a guard
\* ("want_check", "want_handle", "want_apply") or holds one ("check": the
\* router reads last_applied_log, "handle": the router handles a reading
\* request locally, "apply": the store applies a log entry).
Purposes == {"check", "handle", "apply"}

\* The guard each use of the state machine asks for.
guard_taken(purpose) ==
    IF purpose = "check" THEN "read"          \* state_machine.read().await.last_applied_log
    ELSE IF purpose = "handle" THEN "write"   \* state_machine.write().await.registry.request(req)
    ELSE "write"                              \* the apply path

\* RwLock: a read guard is given while no write guard is out, a write guard
\* while no guard is out.
can_take(gs, kind) ==
    IF kind = "read"
    THEN \A t \in Tasks : gs[t].guard # "write"
    ELSE \A t \in Tasks : gs[t].guard = "none"

\* A task starts to use the state machine.
Begin(t) ==
    /\ guards[t].pc = "idle"
    /\ \E purpose \in Purposes :
           guards' = [guards EXCEPT ![t] = [pc |-> "want_" \o purpose, guard |-> "none"]]
    /\ UNCHANGED <<registry, clock, log, sm, call, traversal, join, management, search_index>>

\* The task is given the guard it waits for.
Acquire(t) ==
    /\ \E purpose \in Purposes :
           /\ guards[t].pc = "want_" \o purpose
           /\ can_take(guards, guard_taken(purpose))
           /\ guards' = [guards EXCEPT ![t] = [pc |-> purpose, guard |-> guard_taken(purpose)]]
    /\ UNCHANGED <<registry, clock, log, sm, call, traversal, join, management, search_index>>

\* The guard is dropped.
Release(t) ==
    /\ guards[t].pc \in Purposes
    /\ guards' = [guards EXCEPT ![t] = [pc |-> "idle", guard |-> "none"]]
    /\ UNCHANGED <<registry, clock, log, sm, call, traversal, join, management, search_index>>

NextLock ==
    \/ \E t \in Tasks : Begin(t)
    \/ \E t \in Tasks : Acquire(t)
    \/ \E t \in Tasks : Release(t)

SpecLock == Init /\ [][NextLock]_vars

\* C32: a reading request handled locally holds the read guard only, and
\* only the apply path holds the write guard.
LocalReadsShared ==
    \A t \in Tasks :
        /\ guards[t].pc = "handle" => guards[t].guard = "read"
        /\ guards[t].guard = "write" => guards[t].pc = "apply"

\* ---------------------------------------------------------------- an index on its own
\* FtsIndex::enable
fts_enable(fts, enabled) == [fts EXCEPT !.enabled = enabled]

\* The entity a document is made of: a project with the next id.
doc_entity(id, name) ==
    [id |-> id, entity_type |-> "Project", name |-> name, qualified_name |-> name,
     containers |-> {}]

FtsEnable ==
    /\ \E enabled \in BOOLEAN :
           search_index' = [search_index EXCEPT !.index = fts_enable(@, enabled)]
    /\ UNCHANGED <<registry, clock, log, sm, call, traversal, join, management, guards>>

\* add_doc with a new entity; the entity is noted when indexing is disabled.
FtsAddDoc ==
    /\ search_index.next_id <= MaxDocs
    /\ \E name \in Names :
           search_index' =
               [index |-> fts_add_doc(search_index.index,
                                      doc_entity(search_index.next_id, name)),
                added_disabled |->
                    IF search_index.index.enabled THEN search_index.added_disabled
                    ELSE search_index.added_disabled \cup {search_index.next_id},
                next_id |-> search_index.next_id + 1]
    /\ UNCHANGED <<registry, clock, log, sm, call, traversal, join, management, guards>>

FtsCommit ==
    /\ search_index' = [search_index EXCEPT !.index = fts_commit(@)]
    /\ UNCHANGED <<registry, clock, log, sm, call, traversal, join, management, guards>>

\* index with a new entity.
FtsIndexDoc ==
    /\ search_index.next_id <= MaxDocs
    /\ \E name \in Names :
           search_index' =
               [search_index EXCEPT
                   !.index = fts_index(@, doc_entity(search_index.next_id, name)),
                   !.next_id = @ + 1]
    /\ UNCHANGED <<registry, clock, log, sm, call, traversal, join, management, guards>>

NextFts ==
    \/ FtsEnable
    \/ FtsAddDoc
    \/ FtsCommit
    \/ FtsIndexDoc

SpecFts == Init /\ [][NextFts]_vars

\* C35: a search returns none of the entities that add_doc was given while
\* indexing was disabled, whatever was committed since.
DisabledAddDoc ==
    \A id \in search_index.added_disabled :
        id \notin Range(fts_search(search_index.index, "*", {}, None, MaxDocs, 0))

\* ---------------------------------------------------------------- properties of the cluster
\* The nodes of a registry by id, type and qualified name.
node_set(reg) ==
    {<<e.id, e.entity_type, e.qualified_name>> : e \in Range(reg.graph.nodes)}

\* C1: two replicas that applied the same number of log entries have the same
\* nodes (ids, types, qualified names), the same edges and the same tombstones.
ReplicaConvergence ==
    \A n1, n2 \in Nodes :
        sm[n1].last_applied_log = sm[n2].last_applied_log
            => /\ node_set(sm[n1].registry) = node_set(sm[n2].registry)
               /\ edge_set(sm[n1].registry) = edge_set(sm[n2].registry)
               /\ sm[n1].registry.deleted = sm[n2].registry.deleted

\* The entities node n gained in this step.
created(n) ==
    {sm'[n].registry.graph.nodes[i] :
        i \in (Len(sm[n].registry.graph.nodes) + 1)..Len(sm'[n].registry.graph.nodes)}

\* C2: an entity created by applying a log entry has the id that entry carries.
ApplyDeterminism ==
    [][\A n \in Nodes :
          sm'[n].last_applied_log # sm[n].last_applied_log
              => \A e \in created(n) : e.id = log'[sm'[n].last_applied_log].id]_vars

\* C3: a read that succeeds with a barrier at the index of a completed write
\* is answered from a state machine that applied the log up to that index.
ReadYourWrites ==
    [][(/\ call' # call
        /\ call'.pc = "resolved"
        /\ ~call'.writing
        /\ call'.status = "Ok"
        /\ call'.opt_seq \in 1..Len(log))
          => call'.index >= call'.opt_seq]_vars

\* C4: the x-registry-opt-seq header of the response to a successful write is
\* there and is at least the log index of that write.
HeaderCoversWrite ==
    (call.pc = "done" /\ call.writing /\ call.status = "Ok")
        => (call.header # None /\ call.header >= call.index)

\* C5: a writing request with a barrier that reaches a non-leader is answered
\* BadRequest and not forwarded.
BarrierWriteRejected ==
    (call.route # "none" /\ call.writing /\ call.node # Leader /\ call.opt_seq # None)
        => (call.route = "bad_request" /\ call.status = "BadRequest")

\* C6: a non-leader forwards a read that has no barrier, and answers a read
\* from its own state machine only when the barrier was given and the node
\* had applied the log up to it.
FollowerReads ==
    (call.route # "none" /\ ~call.writing /\ call.node # Leader)
        => /\ call.opt_seq = None => call.route = "forward"
           /\ call.route = "local"
                => (call.opt_seq # None /\ call.local_index >= call.opt_seq)

\* C7: the registry of a node changes only when the node applies the next
\* entry of the log, to what the registry makes of that entry; and a writing
\* request that the leader handles becomes a client-write.
OnlyLogApplication ==
    [][/\ \A n \in Nodes :
            sm'[n].registry # sm[n].registry
                => /\ sm'[n].last_applied_log = sm[n].last_applied_log + 1
                   /\ sm'[n].last_applied_log <= Len(log')
                   /\ \E guid \in Guids,
                         order \in input_orders(log'[sm'[n].last_applied_log]) :
                          sm'[n].registry =
                              handle_request(sm[n].registry, log'[sm'[n].last_applied_log],
                                             guid, clock, order).reg
       /\ (call' # call /\ call'.pc = "resolved" /\ call'.writing /\ call'.node = Leader)
            => call'.route = "client_write"]_vars

\* The leader made a writing request a client-write, the log entry changed
\* its registry, and a follower applied the entry as well.
OnlyLogApplicationWitness ==
    /\ call.writing /\ call.node = Leader /\ call.route = "client_write" /\ call.status = "Ok"
    /\ \A n \in Nodes :
           sm[n].last_applied_log = Len(log) /\ sm[n].registry.graph.nodes # <<>>

\* C33: a call whose leader check failed ends with the InternalError
\* response.  (A forwarding that fails ends so by Request's "failed" branch.)
RouterFailureHandling ==
    call.check = "Err" => call.status = "InternalError"

====
